---- MODULE Spec2Model ----
(***************************************************************************)
(* Model of the go-safe synchronisation core: the Buffer relay             *)
(* (buffer/internal), the Locker and Subject it is built on (subject) and  *)
(* the linked Queue (queue).                                               *)
(*                                                                         *)
(* Goroutines of the model:                                                *)
(*   listen   Buffer.listenForIncomingMessages  (inbound loop)             *)
(*   out      Buffer.sendMessagesFromBuffer     (outbound loop)            *)
(*   prod     a producer calling Send(1), Send(2), ... in order            *)
(*   cons     a consumer calling Receive until it gets an error            *)
(*   closer   the owner of the cancel function, calling Close              *)
(*   resetter a client calling Reset                                       *)
(*   starter  the owner of the Buffer, calling Start                       *)
(***************************************************************************)
EXTENDS Integers, Sequences, FiniteSets, TLC

\* ---- bounds of the model ----
MaxSend == 2    \* messages the producer tries to send: 1..MaxSend
MaxReset == 1   \* Reset calls
MaxStart == 2   \* Start calls (the first one is NewContext's)
MaxClose == 2   \* Close calls (sequential, by the closer)
MaxChange == 2  \* ChangeValue and Get calls on a Locker used on its own
MaxDoFunc == 2  \* DoFunc calls on that Locker
MaxOps == 2     \* Set and Edit calls of the clients of a Subject used on its own
MaxObs == 2     \* observers attached to that Subject
MaxQueueOps == 5  \* calls on a Queue used on its own

\* ---- program constants ----
IsEmpty == 0     \* BufferCondition iota
IsRunning == 1

Nil == "nil"
ErrAlreadyClosed == "buffer is already closed"
ErrEmptyQueue == "queue is empty"
ErrStop == "should stop"
ErrNilReceiver == "common.ErrNilReceiver"
ErrKeyNotExist == "key does not exist"

Procs == {"listen", "out", "prod", "cons", "closer"}

VARIABLES
    \* Buffer fields
    q,                  \* b.q: Nil or "queue"
    sendTo,             \* b.sendTo: Nil or "chan"
    receiveFrom,        \* b.receiveFrom: Nil or "chan"
    wg,                 \* b.wg counter
    locker,             \* b.locker: Nil or "locker"
    \* channel objects
    sendToClosed,       \* the inbound channel has been closed
    receiveFromClosed,  \* the outbound channel has been closed
    \* Locker object
    subjects,           \* key -> state of its Subject[bool]
    \* Queue object
    nodes,              \* values of the nodes linked from front to back
    size,               \* queue.size: the size Subject (its state and the number of
                        \* observers attached), or NoSubject when the field is nil
    mu,                 \* holder of queue.mu, Nil when free
    \* goroutines
    pc,                 \* position of each goroutine
    msg,                \* listen: the value taken from the inbound channel
    peeked,             \* out: msg of sendSingleMessage
    mapCopy,            \* out: the snapshot DoFunc passed to fn
    phase,              \* out: "run" (first loop) or "drain" (second loop)
    next,               \* prod: the next message to send
    sendCh,             \* prod: channel operand of the send statement
    recvCh,             \* cons: channel operand of the receive statement
    \* observation (history) variables
    crashed,            \* a goroutine panicked: the process is gone
    sendErr,            \* prod: error of the last Send that returned
    recvErr,            \* cons: error of the last Receive that returned
    received,           \* cons: values returned by Receive, in order
    starts,             \* Start calls made
    spawned,            \* background goroutines launched
    closes,             \* Close calls returned
    resets,             \* Reset calls made
    acceptedAtClose,    \* Send calls that had returned nil when Close was first invoked
    dropped,            \* items that were in the queue when a Reset ran
    lost,               \* items removed from the queue without a handoff of that item
    afterReset          \* items whose Send call began after a Reset call had
                        \* returned (recorded by SpecMarked only)

\* A Locker used on its own (the Locker specification): `subjects` and `locker`
\* above are its map and its pointer.
VARIABLES
    broadcast,          \* key -> the broadcast flag its SetSubject was called with
    condL,              \* holder of l.cond.L, Nil when free
    lpc,                \* position of each client goroutine of the Locker
    toRead,             \* hasFalse: keys its range over l.subjects has not visited
    map_copy,           \* waiter -> map_copy of its DoFunc call
    ckey,               \* changer -> key of its ChangeValue call
    cval,               \* changer -> value of its ChangeValue call
    \* observation (history) variables
    dfCalls,            \* DoFunc calls made
    fCalls,             \* waiter -> calls of f in its current DoFunc call
    fErr,               \* waiter -> the error f returned to its DoFunc call
    dfErr,              \* the error the last DoFunc call to return returned
    cvCalls,            \* ChangeValue and Get calls made
    cvErr,              \* the error of the last ChangeValue or Get call to return
    getVal,             \* the value of the last Get call
    held                \* waiter -> the maps of condition values that were the
                        \* Locker's at some instant of its DoFunc call under way
                        \* (recorded by SpecSnapshot only)

\* A Subject[int] used on its own (the Subject specification).
VARIABLES
    state,              \* s.state
    observers,          \* s.observers: the kind of each attached observer
    smu,                \* holder of s.mu (write-locked), Free when nobody holds it
    ag,                 \* the goroutines using the Subject: the clients and one
                        \* per observer of each notification
    notes,              \* the NotifyAll calls made: snapshot, caller, result
    ops                 \* client calls made

\* A Queue used on its own (the Queue specification), with its nodes and
\* pointers; there nodes is the sequence of the values it holds.
VARIABLES
    front,              \* queue.front: a node, or NilNode
    back,               \* queue.back: a node, or NilNode
    heap,               \* the nodes in memory: node -> [value, next]
    qret,               \* the last call and what it returned
    sizeSent,           \* the values the size observers have been notified of
    qops                \* calls made

\* The locks of a started Buffer (the lock-order specification): the Buffer's
\* goroutines followed through every Lock, RLock, Unlock and RUnlock they make.
VARIABLES
    lkW,                \* lock -> the goroutine that holds it locked, or Nil
    lkR,                \* lock -> the goroutines that hold it read-locked
    lkOrder,            \* the pairs <<h, l>>: l was acquired while h was held
    gpc,                \* goroutine -> its position
    lkq,                \* the queue: its length, and whether its size Subject
                        \* still has the observer Start attached
    lkc,                \* condition -> state of its Subject
    lko,                \* locals of the outbound loop: map_copy, the keys
                        \* hasFalse has yet to read, the key read, the loop
    ctx,                \* goroutine -> key and value of the ChangeValue under
                        \* way, and where its calls return to
    lkenv               \* messages taken from sendTo, whether sendTo is closed,
                        \* Reset calls made, whether b.q was set to nil

lockVars == <<lkW, lkR, lkOrder, gpc, lkq, lkc, lko, ctx, lkenv>>

\* Two goroutines that each call Set once on one Subject[int] (the concurrent
\* writers specification); the Subject is state, observers and smu above.
VARIABLES
    wr,                 \* writer -> its Set call: position, value, NotifyAll's
                        \* copy of state and observers, the closures still to
                        \* run, the errors collected, s.state when the copy
                        \* was taken, whether no other call has been under way
                        \* during this one
    told,               \* the Notify calls made: writer, observer, the value
                        \* passed, s.state when NotifyAll took its copy
    calls               \* observer -> Notify calls made on it

writerVars == <<wr, told, calls>>

bufVars == <<q, sendTo, receiveFrom, wg, locker>>
chanVars == <<sendToClosed, receiveFromClosed>>
queueVars == <<nodes, size, mu>>
localVars == <<msg, peeked, mapCopy, phase, next, sendCh, recvCh>>
histVars == <<crashed, sendErr, recvErr, received, starts, spawned, closes, resets,
              acceptedAtClose, dropped, lost, afterReset>>
lockerVars == <<broadcast, condL, lpc, toRead, map_copy, ckey, cval>>
lockerHist == <<dfCalls, fCalls, fErr, dfErr, cvCalls, cvErr, getVal, held>>
subjectVars == <<state, observers, smu, ag, notes, ops>>
linkedVars == <<front, back, heap, qret, sizeSent, qops>>
unitVars == <<lockerVars, lockerHist, subjectVars, linkedVars, lockVars, writerVars>>
\* Everything but the Locker.
outsideLocker == <<bufVars, chanVars, queueVars, pc, localVars, histVars,
                   subjectVars, linkedVars, lockVars, writerVars>>
\* Everything but the Subject used on its own.
outsideSubject == <<bufVars, chanVars, subjects, queueVars, pc, localVars,
                    histVars, lockerVars, lockerHist, linkedVars, lockVars, writerVars>>
\* Everything but the Queue used on its own.
outsideQueue == <<bufVars, chanVars, subjects, mu, pc, localVars, histVars,
                  lockerVars, lockerHist, subjectVars, lockVars, writerVars>>
vars == <<bufVars, chanVars, subjects, queueVars, pc, localVars, histVars,
          unitVars>>

\* Goroutines of the Locker specification.
Waiters == {"w1", "w2"}
Changers == {"c1"}
\* The keys SetSubject registers, and all keys ChangeValue and Get are called
\* with: one more, which is never registered.
Keys == {IsEmpty, IsRunning}
AllKeys == Keys \cup {IsRunning + 1}
\* The errors f may return.
FErrors == {Nil, ErrStop, "f failed"}

\* ---- Locker (subject package) ----

\* Mutant: the check succeeds when every condition is true.
allTrue(s) == \A k \in DOMAIN s : s[k]

\* Locker.hasFalse: at least one registered condition is false.
hasFalse(s) == \E k \in DOMAIN s : ~s[k]

\* Locker.Get: the value of a key, or the key-not-found error.
Get(s, key) ==
    IF key \in DOMAIN s THEN [val |-> s[key], err |-> Nil]
    ELSE [val |-> FALSE, err |-> ErrKeyNotExist]

\* Mutant: ChangeValue stores the value under a key it did not find.
ChangeValueInserts(l, s, key, value) ==
    IF l = Nil THEN s
    ELSE [k \in DOMAIN s \cup {key} |-> IF k = key THEN value ELSE s[k]]

\* Locker.ChangeValue up to subject.Set's write of the state; the pulse of the
\* condition variable is the observer's, a later step of the caller.
ChangeValue(l, s, key, value) ==
    IF l = Nil \/ key \notin DOMAIN s THEN s
    ELSE [s EXCEPT ![key] = value]

\* cond.Broadcast (both keys are registered with broadcast = true): every
\* goroutine in cond.Wait resumes and re-checks.
Broadcast(p) == [p EXCEPT !["out"] = IF @ = "wait" THEN "dofunc" ELSE @]

\* ---- Queue ----

\* Mutant: the new node is linked before front.
linkFront(ns, v) == <<v>> \o ns

\* Enqueue links the new node behind back.
linkBack(ns, v) == Append(ns, v)

\* Mutant: Dequeue leaves the front node in place.
unlinkNone(ns) == ns

\* Dequeue unlinks the front node.
unlinkFront(ns) == Tail(ns)

\* Peek: the value of the front node, or the empty-queue error.
Peek(ns) ==
    IF ns = <<>> THEN [value |-> 0, err |-> ErrEmptyQueue]
    ELSE [value |-> Head(ns), err |-> Nil]

\* queue.size == nil
NoSubject == [ptr |-> Nil, state |-> 0, observers |-> 0]

\* new(Subject[int]): state 0 and no observers.
NewSubject == [ptr |-> "subject", state |-> 0, observers |-> 0]

\* The lazy creation of the size Subject in Enqueue and ObserveSize.
sizeOrNew(sz) == IF sz = NoSubject THEN NewSubject ELSE sz

\* Subject.Edit with the mutator of Enqueue (d = 1) or Dequeue (d = -1); on a
\* nil Subject Edit only returns the nil-receiver error.
Edit(sz, d) == IF sz = NoSubject THEN sz ELSE [sz EXCEPT !.state = @ + d]

\* Mutant: the size observer writes the IsRunning key.
sizeObserverWrongKey(l, s, val) == ChangeValue(l, s, IsRunning, val = 0)

\* The ObserveSize callback of Buffer.Start: b.locker.ChangeValue(IsEmpty, val == 0).
sizeObserver(l, s, val) == ChangeValue(l, s, IsEmpty, val = 0)

\* The client of the Subject specification (goroutine <<0, 1>>; the goroutine
\* NotifyAll starts for observer i of its n-th call is <<n, i>>).
Clients == {<<0, 1>>}

\* What the Notify of an observer does with the value it is given:
\*   "fail"    returns an error
\*   "get"     calls s.Get() and returns nil
\*   "attach"  calls s.Attach(o) with a new observer of kind "get" the first
\*             time the value is not 0 and returns nil; the observer is
\*             "attached" from then on and does nothing more
\*   "set"     calls s.Set(0) when the value is not 0 and returns its error
\*   "edit"    calls s.Edit(zero) when the value is not 0 and returns its error
KindOrder == <<"fail", "get", "attach", "set", "edit">>
Kinds == {KindOrder[k] : k \in DOMAIN KindOrder}

\* NotifyAll treats all observers alike and runs them concurrently, so the
\* order of the Attach calls is fixed: observers are attached in KindOrder.
inOrder(obs, kind) ==
    IF obs = <<>> THEN TRUE
    ELSE \E j, k \in DOMAIN KindOrder :
            /\ KindOrder[j] = obs[Len(obs)] /\ KindOrder[k] = kind /\ j <= k

\* The holder of s.mu when nobody holds it (the holders are goroutines).
Free == <<0, 0>>

\* A goroutine that is not in a call. An error value is the set of the
\* observer errors joined in it, each with the indices of the closures it
\* came up through; the nil error is the empty set.
IdleAgent ==
    [pc |-> "idle", op |-> "none", arg |-> 0, fn |-> "nil", same |-> FALSE,
     note |-> 0, err |-> {}, who |-> 0, calls |-> 0, got |-> 0]

\* new(Subject[int]): zero state, no observer; no goroutine uses it.
SubjectIdle ==
    /\ state = 0 /\ observers = <<>> /\ smu = Free
    /\ ag = [a \in Clients |-> IdleAgent]
    /\ notes = <<>>
    /\ ops = 0

\* The nil node pointer (nodes are numbered from 1).
NilNode == 0

\* What a call that has not been made returned.
NoCall == [op |-> "none", value |-> 0, err |-> Nil]

\* new(Queue[T]): no node, front and back nil; nothing has been called.
QueueIdle ==
    /\ front = NilNode /\ back = NilNode /\ heap = <<>>
    /\ qret = NoCall /\ sizeSent = <<>> /\ qops = 0

\* NewLocker: an empty map and a free condition variable; no goroutine uses it.
LockerIdle ==
    /\ broadcast = <<>> /\ condL = Nil
    /\ lpc = [p \in Waiters \cup Changers |-> "idle"]
    /\ toRead = {}
    /\ map_copy = [w \in Waiters |-> <<>>]
    /\ ckey = [c \in Changers |-> IsEmpty] /\ cval = [c \in Changers |-> FALSE]
    /\ dfCalls = 0 /\ fCalls = [w \in Waiters |-> 0]
    /\ fErr = [w \in Waiters |-> Nil] /\ dfErr = Nil
    /\ cvCalls = 0 /\ cvErr = Nil /\ getVal = FALSE
    /\ held = [w \in Waiters |-> {}]

\* The goroutines of the lock-order specification: the inbound loop, the
\* outbound loop, and a caller of Reset.
LkG == {"listen", "out", "reset"}

\* The locks: queue.mu, the size Subject's mu, the Locker's mu, the condition
\* variable's L, and the mu of each condition's Subject.
Locks == {"queue.mu", "size.mu", "l.mu", "cond.L", "isEmpty.mu", "isRunning.mu"}

\* No ChangeValue under way and nothing to return to.
NoCtx == [key |-> IsEmpty, val |-> FALSE, ret |-> "none", after |-> "none"]

\* The locals of the outbound loop before its first iteration.
NoLocals == [map_copy |-> <<>>, left |-> {}, key |-> IsEmpty, phase |-> "run"]

\* No Buffer is followed lock by lock: every lock free, no goroutine started.
LocksIdle ==
    /\ lkW = [l \in Locks |-> Nil] /\ lkR = [l \in Locks |-> {}]
    /\ lkOrder = {}
    /\ gpc = [g \in LkG |-> "off"]
    /\ lkq = [items |-> 0, observed |-> FALSE]
    /\ lkc = [k \in Keys |-> TRUE]
    /\ lko = NoLocals
    /\ ctx = [g \in LkG |-> NoCtx]
    /\ lkenv = [taken |-> 0, closed |-> FALSE, resets |-> 0, qnil |-> FALSE]

\* The two writers (goroutines <<0, 1>> and <<0, 2>>).
Writers == {<<0, 1>>, <<0, 2>>}

\* A writer that has not called Set.
NoSet == [pc |-> "idle", arg |-> 0, state |-> 0, obs |-> <<>>, left |-> {},
          errs |-> {}, at |-> 0, alone |-> TRUE]

\* No Subject is written by two goroutines.
WritersIdle ==
    /\ wr = [w \in Writers |-> NoSet]
    /\ told = {}
    /\ calls = <<>>

Init ==
    /\ q = Nil /\ sendTo = Nil /\ receiveFrom = Nil /\ wg = 0 /\ locker = Nil
    /\ sendToClosed = FALSE /\ receiveFromClosed = FALSE
    /\ subjects = <<>>
    /\ nodes = <<>> /\ size = NoSubject /\ mu = Nil
    /\ pc = [p \in Procs |-> "idle"]
    /\ msg = 0 /\ peeked = 0 /\ mapCopy = <<>> /\ phase = "run"
    /\ next = 1 /\ sendCh = Nil /\ recvCh = Nil
    /\ crashed = FALSE /\ sendErr = Nil /\ recvErr = Nil /\ received = <<>>
    /\ starts = 0 /\ spawned = 0 /\ closes = 0 /\ resets = 0
    /\ acceptedAtClose = -1 /\ dropped = {} /\ lost = {} /\ afterReset = {}
    /\ LockerIdle
    /\ SubjectIdle
    /\ QueueIdle
    /\ LocksIdle
    /\ WritersIdle

\* ---- Buffer.Start ----

\* The state Start allocates: Locker with both conditions true, Queue with the
\* size observer attached, both channels, and the two loops.
StartAllocates ==
    /\ locker' = "locker"
    /\ subjects' = [k \in {IsEmpty, IsRunning} |-> TRUE]
    /\ q' = "queue"
    /\ nodes' = <<>> /\ size' = [NewSubject EXCEPT !.observers = 1] /\ mu' = Nil
    /\ sendTo' = "chan" /\ receiveFrom' = "chan"
    /\ sendToClosed' = FALSE /\ receiveFromClosed' = FALSE
    /\ wg' = wg + 2
    /\ spawned' = spawned + 2
    /\ pc' = [pc EXCEPT !["listen"] = "recv", !["out"] = "get"]
    /\ phase' = "run"

StartKeeps ==
    UNCHANGED <<bufVars, chanVars, subjects, queueVars, pc, phase, spawned>>

\* Mutant: Start does not check b.locker.
neverStarted(l) == FALSE

\* Start's early return: the Buffer is already started.
alreadyStarted(l) == l # Nil

\* Start is called by NewContext before the context is handed out, and may be
\* called again while nobody has invoked Close.
Start ==
    /\ ~crashed
    /\ UNCHANGED unitVars
    /\ starts < MaxStart
    /\ pc["closer"] = "idle" /\ closes = 0
    /\ starts' = starts + 1
    /\ IF alreadyStarted(locker) THEN StartKeeps ELSE StartAllocates
    /\ UNCHANGED <<msg, peeked, mapCopy, next, sendCh, recvCh>>
    /\ UNCHANGED <<crashed, sendErr, recvErr, received, closes, resets,
                   acceptedAtClose, dropped, lost,
                   afterReset>>

\* ---- Buffer.listenForIncomingMessages ----

\* `for msg := range b.sendTo` when the channel is closed and empty: the loop
\* ends and the goroutine goes on to ChangeValue(IsRunning, false).
ListenRangeEnd ==
    /\ ~crashed
    /\ UNCHANGED unitVars
    /\ pc["listen"] = "recv"
    /\ sendToClosed
    /\ pc' = [pc EXCEPT !["listen"] = "setrun"]
    /\ UNCHANGED <<bufVars, chanVars, subjects, queueVars, localVars, histVars>>

\* q.Enqueue(msg) up to the write of IsEmpty inside the size observer; queue.mu
\* stays held until the pulse is done.
ListenEnqueue ==
    /\ ~crashed
    /\ UNCHANGED unitVars
    /\ pc["listen"] = "enq"
    /\ mu = Nil
    /\ nodes' = linkBack(nodes, msg)
    /\ size' = Edit(sizeOrNew(size), 1)
    /\ IF size'.observers > 0
       THEN /\ subjects' = sizeObserver(locker, subjects, size'.state)
            /\ mu' = "listen"
            /\ pc' = [pc EXCEPT !["listen"] = "enqPulse"]
       ELSE /\ UNCHANGED <<subjects, mu>>
            /\ pc' = [pc EXCEPT !["listen"] = "recv"]
    /\ UNCHANGED <<bufVars, chanVars, localVars, histVars>>

\* The observer's cond.Broadcast under cond.L, then Enqueue's deferred Unlock.
ListenEnqueuePulse ==
    /\ ~crashed
    /\ UNCHANGED unitVars
    /\ pc["listen"] = "enqPulse"
    /\ mu' = Nil
    /\ pc' = [Broadcast(pc) EXCEPT !["listen"] = "recv"]
    /\ UNCHANGED <<bufVars, chanVars, subjects, nodes, size, localVars,
                   histVars>>

\* b.locker.ChangeValue(IsRunning, false): the write.
ListenSetRunning ==
    /\ ~crashed
    /\ UNCHANGED unitVars
    /\ pc["listen"] = "setrun"
    /\ subjects' = ChangeValue(locker, subjects, IsRunning, FALSE)
    /\ pc' = [pc EXCEPT !["listen"] = "runPulse"]
    /\ UNCHANGED <<bufVars, chanVars, queueVars, localVars, histVars>>

\* The pulse of that ChangeValue, then the deferred wg.Done.
ListenDone ==
    /\ ~crashed
    /\ UNCHANGED unitVars
    /\ pc["listen"] = "runPulse"
    /\ pc' = [Broadcast(pc) EXCEPT !["listen"] = "done"]
    /\ wg' = wg - 1
    /\ UNCHANGED <<q, sendTo, receiveFrom, locker, chanVars, subjects, queueVars,
                   localVars, histVars>>

\* ---- Buffer.sendMessagesFromBuffer ----

\* Where the outbound loop goes when sendSingleMessage ends an inner loop: the
\* running phase returns from fn, the drain phase falls through to the teardown.
afterLoop(ph) == IF ph = "run" THEN "fnReturn" ELSE "teardown"

\* Mutant: the drain loop breaks on a failed send as fn's loop does.
afterDefaultBreaks(ph) == IF ph = "run" THEN "fnReturn" ELSE "teardown"

\* Mutant: fn's loop tries again on a failed send.
afterDefaultRetries(ph) == "peek"

\* Where it goes when the non-blocking send took the default case: fn's loop
\* breaks (ok is false), the drain loop tries again (isEmpty is false).
afterDefault(ph) == IF ph = "run" THEN "fnReturn" ELSE "peek"

\* value, err := b.locker.Get(IsRunning); a false value ends the running phase.
OutGet ==
    /\ ~crashed
    /\ UNCHANGED unitVars
    /\ pc["out"] = "get"
    /\ LET r == Get(subjects, IsRunning)
       IN  IF locker = Nil \/ r.err # Nil
           THEN /\ crashed' = TRUE
                /\ UNCHANGED <<pc, phase>>
           ELSE /\ UNCHANGED crashed
                /\ IF r.val
                   THEN /\ pc' = [pc EXCEPT !["out"] = "dofunc"]
                        /\ UNCHANGED phase
                   ELSE /\ pc' = [pc EXCEPT !["out"] = "peek"]
                        /\ phase' = "drain"
    /\ UNCHANGED <<bufVars, chanVars, subjects, queueVars, msg, peeked, mapCopy,
                   next, sendCh, recvCh>>
    /\ UNCHANGED <<sendErr, recvErr, received, starts, spawned, closes, resets,
                   acceptedAtClose, dropped, lost,
                   afterReset>>

\* Locker.DoFunc under cond.L: hasFalse takes the snapshot; with a false
\* condition DoFunc unlocks and calls fn, otherwise it enters cond.Wait.
OutDoFunc ==
    /\ ~crashed
    /\ UNCHANGED unitVars
    /\ pc["out"] = "dofunc"
    /\ IF hasFalse(subjects)
       THEN /\ mapCopy' = subjects
            /\ pc' = [pc EXCEPT !["out"] = "peek"]
       ELSE /\ UNCHANGED mapCopy
            /\ pc' = [pc EXCEPT !["out"] = "wait"]
    /\ UNCHANGED <<bufVars, chanVars, subjects, queueVars, msg, peeked, phase,
                   next, sendCh, recvCh, histVars>>

\* sendSingleMessage: msg, err := b.q.Peek().
OutPeek ==
    /\ ~crashed
    /\ UNCHANGED unitVars
    /\ pc["out"] = "peek"
    /\ mu = Nil
    /\ LET r == Peek(nodes)
       IN  IF r.err # Nil
           THEN /\ pc' = [pc EXCEPT !["out"] = afterLoop(phase)]
                /\ UNCHANGED peeked
           ELSE /\ pc' = [pc EXCEPT !["out"] = "offer"]
                /\ peeked' = r.value
    /\ UNCHANGED <<bufVars, chanVars, subjects, queueVars, msg, mapCopy, phase,
                   next, sendCh, recvCh, histVars>>

\* A receiver is ready on the outbound channel.
receiverReady ==
    /\ pc["cons"] = "rwait" /\ recvCh = "chan"
    /\ receiveFrom = "chan" /\ ~receiveFromClosed

\* sendSingleMessage: `select { case b.receiveFrom <- msg: ... default: ... }`.
\* The send case is taken exactly when a receiver is ready; the receiver's
\* Receive returns the value.
OutOffer ==
    /\ ~crashed
    /\ UNCHANGED unitVars
    /\ pc["out"] = "offer"
    /\ IF receiverReady
       THEN /\ received' = Append(received, peeked)
            /\ recvErr' = Nil
            /\ pc' = [pc EXCEPT !["out"] = "deq", !["cons"] = "idle"]
       ELSE /\ pc' = [pc EXCEPT !["out"] = afterDefault(phase)]
            /\ UNCHANGED <<received, recvErr>>
    /\ UNCHANGED <<bufVars, chanVars, subjects, queueVars, localVars>>
    /\ UNCHANGED <<crashed, sendErr, starts, spawned, closes, resets,
                   acceptedAtClose, dropped, lost,
                   afterReset>>

\* sendSingleMessage: _, err := b.q.Dequeue(), up to the write of IsEmpty in the
\* size observer. On the empty-queue error sendSingleMessage returns
\* (true, false), which ends either loop.
OutDequeue ==
    /\ ~crashed
    /\ UNCHANGED unitVars
    /\ pc["out"] = "deq"
    /\ mu = Nil
    /\ IF nodes = <<>>
       THEN /\ pc' = [pc EXCEPT !["out"] = afterLoop(phase)]
            /\ UNCHANGED <<subjects, queueVars, lost, afterReset>>
       ELSE /\ nodes' = unlinkFront(nodes)
            /\ size' = Edit(size, -1)
            /\ lost' = IF Head(nodes) = peeked THEN lost ELSE lost \cup {Head(nodes)}
            /\ UNCHANGED afterReset
            /\ IF size'.observers > 0
               THEN /\ subjects' = sizeObserver(locker, subjects, size'.state)
                    /\ mu' = "out"
                    /\ pc' = [pc EXCEPT !["out"] = "deqPulse"]
               ELSE /\ UNCHANGED <<subjects, mu>>
                    /\ pc' = [pc EXCEPT !["out"] = "peek"]
    /\ UNCHANGED <<bufVars, chanVars, localVars>>
    /\ UNCHANGED <<crashed, sendErr, recvErr, received, starts, spawned, closes,
                   resets, acceptedAtClose, dropped>>

\* The observer's cond.Broadcast, then Dequeue's deferred Unlock; sendSingleMessage
\* returns (false, true) and the loop goes on.
OutDequeuePulse ==
    /\ ~crashed
    /\ UNCHANGED unitVars
    /\ pc["out"] = "deqPulse"
    /\ mu' = Nil
    /\ pc' = [pc EXCEPT !["out"] = "peek"]
    /\ UNCHANGED <<bufVars, chanVars, subjects, nodes, size, localVars,
                   histVars>>

\* The end of fn: nil when the snapshot says running, ErrStop otherwise; on nil
\* the running loop continues, on ErrStop it breaks into the drain loop.
fnResult(m) == IF m[IsRunning] THEN Nil ELSE ErrStop

OutFnReturn ==
    /\ ~crashed
    /\ UNCHANGED unitVars
    /\ pc["out"] = "fnReturn"
    /\ IF fnResult(mapCopy) = Nil
       THEN /\ pc' = [pc EXCEPT !["out"] = "get"]
            /\ UNCHANGED phase
       ELSE /\ pc' = [pc EXCEPT !["out"] = "peek"]
            /\ phase' = "drain"
    /\ UNCHANGED <<bufVars, chanVars, subjects, queueVars, msg, peeked, mapCopy,
                   next, sendCh, recvCh, histVars>>

\* b.locker = nil; b.q = nil; then the deferred wg.Done.
OutTeardown ==
    /\ ~crashed
    /\ UNCHANGED unitVars
    /\ pc["out"] = "teardown"
    /\ locker' = Nil
    /\ q' = Nil
    /\ wg' = wg - 1
    /\ pc' = [pc EXCEPT !["out"] = "done"]
    /\ UNCHANGED <<sendTo, receiveFrom, chanVars, subjects, queueVars, localVars,
                   histVars>>

\* ---- Buffer.Send ----

\* Mutant: Send does not check the field.
sendGuardMissing(ch) == Nil

\* Send's guard on the inbound channel field.
sendGuard(ch) == IF ch = Nil THEN ErrAlreadyClosed ELSE Nil

\* The Send call of item v begins after r Reset calls have returned.
startedAfterReset(s, r, v) == IF r > 0 THEN s \cup {v} ELSE s

\* A Send call up to its check of b.sendTo. The producer sends 1, 2, ... in order
\* and gives up at the first error, as the producers of actions_test.go do.
SendCallBegins ==
    /\ ~crashed
    /\ UNCHANGED unitVars
    /\ starts > 0
    /\ pc["prod"] = "idle"
    /\ next <= MaxSend
    /\ IF sendGuard(sendTo) # Nil
       THEN /\ sendErr' = sendGuard(sendTo)
            /\ pc' = [pc EXCEPT !["prod"] = "stopped"]
       ELSE /\ UNCHANGED sendErr
            /\ pc' = [pc EXCEPT !["prod"] = "sload"]
    /\ UNCHANGED <<bufVars, chanVars, subjects, queueVars, localVars>>
    /\ UNCHANGED <<crashed, recvErr, received, starts, spawned, closes, resets,
                   acceptedAtClose, dropped, lost>>

SendCall == SendCallBegins /\ UNCHANGED afterReset

\* The same call, recorded: the item is marked when a Reset call has returned
\* before.
SendCallMarked ==
    SendCallBegins /\ afterReset' = startedAfterReset(afterReset, resets, next)

\* `b.sendTo <- msg` evaluates its channel operand: a second, unsynchronised
\* read of the field.
SendLoad ==
    /\ ~crashed
    /\ UNCHANGED unitVars
    /\ pc["prod"] = "sload"
    /\ sendCh' = sendTo
    /\ pc' = [pc EXCEPT !["prod"] = "swait"]
    /\ UNCHANGED <<bufVars, chanVars, subjects, queueVars, msg, peeked, mapCopy,
                   phase, next, recvCh, histVars>>

\* The unbuffered handoff: the inbound loop's range receives the value and Send
\* returns nil.
SendHandoff ==
    /\ ~crashed
    /\ UNCHANGED unitVars
    /\ pc["prod"] = "swait" /\ sendCh = "chan" /\ ~sendToClosed
    /\ pc["listen"] = "recv"
    /\ msg' = next
    /\ next' = next + 1
    /\ sendErr' = Nil
    /\ pc' = [pc EXCEPT !["prod"] = "idle", !["listen"] = "enq"]
    /\ UNCHANGED <<bufVars, chanVars, subjects, queueVars, peeked, mapCopy, phase,
                   sendCh, recvCh>>
    /\ UNCHANGED <<crashed, recvErr, received, starts, spawned, closes, resets,
                   acceptedAtClose, dropped, lost,
                   afterReset>>

\* A send on a closed channel panics, also when the sender was already blocked
\* on the channel when it was closed.
SendPanic ==
    /\ ~crashed
    /\ UNCHANGED unitVars
    /\ pc["prod"] = "swait" /\ sendCh = "chan" /\ sendToClosed
    /\ crashed' = TRUE
    /\ pc' = [pc EXCEPT !["prod"] = "panic"]
    /\ UNCHANGED <<bufVars, chanVars, subjects, queueVars, localVars>>
    /\ UNCHANGED <<sendErr, recvErr, received, starts, spawned, closes, resets,
                   acceptedAtClose, dropped, lost,
                   afterReset>>

\* ---- Buffer.Receive ----

\* Mutant: Receive does not check the field.
receiveGuardMissing(ch) == Nil

\* Receive's guard on the outbound channel field.
receiveGuard(ch) == IF ch = Nil THEN ErrAlreadyClosed ELSE Nil

\* A Receive call up to its check of b.receiveFrom. The consumer receives until
\* the first error, as the draining receiver of actions_test.go does.
ReceiveCall ==
    /\ ~crashed
    /\ UNCHANGED unitVars
    /\ starts > 0
    /\ pc["cons"] = "idle"
    /\ IF receiveGuard(receiveFrom) # Nil
       THEN /\ recvErr' = receiveGuard(receiveFrom)
            /\ pc' = [pc EXCEPT !["cons"] = "stopped"]
       ELSE /\ UNCHANGED recvErr
            /\ pc' = [pc EXCEPT !["cons"] = "rload"]
    /\ UNCHANGED <<bufVars, chanVars, subjects, queueVars, localVars>>
    /\ UNCHANGED <<crashed, sendErr, received, starts, spawned, closes, resets,
                   acceptedAtClose, dropped, lost,
                   afterReset>>

\* `<-b.receiveFrom` evaluates its channel operand: a second, unsynchronised
\* read of the field.
ReceiveLoad ==
    /\ ~crashed
    /\ UNCHANGED unitVars
    /\ pc["cons"] = "rload"
    /\ recvCh' = receiveFrom
    /\ pc' = [pc EXCEPT !["cons"] = "rwait"]
    /\ UNCHANGED <<bufVars, chanVars, subjects, queueVars, msg, peeked, mapCopy,
                   phase, next, sendCh, histVars>>

\* The result of a receive from a closed channel: ok is false.
closedReceive == ErrAlreadyClosed

\* msg, ok := <-b.receiveFrom on the closed channel.
ReceiveClosed ==
    /\ ~crashed
    /\ UNCHANGED unitVars
    /\ pc["cons"] = "rwait" /\ recvCh = "chan" /\ receiveFromClosed
    /\ recvErr' = closedReceive
    /\ pc' = [pc EXCEPT !["cons"] = "stopped"]
    /\ UNCHANGED <<bufVars, chanVars, subjects, queueVars, localVars>>
    /\ UNCHANGED <<crashed, sendErr, received, starts, spawned, closes, resets,
                   acceptedAtClose, dropped, lost,
                   afterReset>>

\* ---- Buffer.Close ----

\* Mutant: Close does not check b.sendTo.
closeGuardMissing(ch) == FALSE

\* Close's early return.
closeGuard(ch) == ch = Nil

\* A Close call up to its check of b.sendTo.
CloseCall ==
    /\ ~crashed
    /\ UNCHANGED unitVars
    /\ starts > 0
    /\ pc["closer"] = "idle"
    /\ closes < MaxClose
    /\ acceptedAtClose' = IF acceptedAtClose < 0 THEN next - 1 ELSE acceptedAtClose
    /\ IF closeGuard(sendTo)
       THEN /\ closes' = closes + 1
            /\ UNCHANGED pc
       ELSE /\ pc' = [pc EXCEPT !["closer"] = "closeIn"]
            /\ UNCHANGED closes
    /\ UNCHANGED <<bufVars, chanVars, subjects, queueVars, localVars>>
    /\ UNCHANGED <<crashed, sendErr, recvErr, received, starts, spawned, resets,
                   dropped, lost,
                   afterReset>>

\* close(b.sendTo)
CloseInbound ==
    /\ ~crashed
    /\ UNCHANGED unitVars
    /\ pc["closer"] = "closeIn"
    /\ IF sendToClosed THEN crashed' = TRUE ELSE UNCHANGED crashed
    /\ sendToClosed' = TRUE
    /\ pc' = [pc EXCEPT !["closer"] = "nilIn"]
    /\ UNCHANGED <<bufVars, receiveFromClosed, subjects, queueVars, localVars>>
    /\ UNCHANGED <<sendErr, recvErr, received, starts, spawned, closes, resets,
                   acceptedAtClose, dropped, lost,
                   afterReset>>

\* b.sendTo = nil
CloseNilInbound ==
    /\ ~crashed
    /\ UNCHANGED unitVars
    /\ pc["closer"] = "nilIn"
    /\ sendTo' = Nil
    /\ pc' = [pc EXCEPT !["closer"] = "join"]
    /\ UNCHANGED <<q, receiveFrom, wg, locker, chanVars, subjects, queueVars,
                   localVars, histVars>>

\* Mutant: Close does not join the loops.
waitSkipped(n) == TRUE

\* b.wg.Wait() returns when the counter is zero.
waitDone(n) == n = 0

\* b.wg.Wait(); close(b.receiveFrom)
CloseOutbound ==
    /\ ~crashed
    /\ UNCHANGED unitVars
    /\ pc["closer"] = "join"
    /\ waitDone(wg)
    /\ IF receiveFromClosed THEN crashed' = TRUE ELSE UNCHANGED crashed
    /\ receiveFromClosed' = TRUE
    /\ pc' = [pc EXCEPT !["closer"] = "nilOut"]
    /\ UNCHANGED <<bufVars, sendToClosed, subjects, queueVars, localVars>>
    /\ UNCHANGED <<sendErr, recvErr, received, starts, spawned, closes, resets,
                   acceptedAtClose, dropped, lost,
                   afterReset>>

\* b.receiveFrom = nil, and Close returns.
CloseReturn ==
    /\ ~crashed
    /\ UNCHANGED unitVars
    /\ pc["closer"] = "nilOut"
    /\ receiveFrom' = Nil
    /\ closes' = closes + 1
    /\ pc' = [pc EXCEPT !["closer"] = "idle"]
    /\ UNCHANGED <<q, sendTo, wg, locker, chanVars, subjects, queueVars, localVars>>
    /\ UNCHANGED <<crashed, sendErr, recvErr, received, starts, spawned, resets,
                   acceptedAtClose, dropped, lost,
                   afterReset>>

\* ---- Buffer.Reset and Queue.Reset ----

\* Queue.Reset under queue.mu: an empty queue is left as it is, otherwise front
\* and back are cut off and the size Subject is dropped with its observers.
queueReset(ns, sz) ==
    IF ns = <<>> THEN [nodes |-> ns, size |-> sz]
    ELSE [nodes |-> <<>>, size |-> NoSubject]

Reset ==
    /\ ~crashed
    /\ UNCHANGED unitVars
    /\ starts > 0
    /\ resets < MaxReset
    /\ resets' = resets + 1
    /\ IF q = Nil
       THEN UNCHANGED <<queueVars, dropped>>
       ELSE /\ mu = Nil
            /\ LET r == queueReset(nodes, size)
               IN  /\ nodes' = r.nodes
                   /\ size' = r.size
            /\ dropped' = dropped \cup {nodes[i] : i \in 1..Len(nodes)}
            /\ UNCHANGED mu
    /\ UNCHANGED <<bufVars, chanVars, subjects, pc, localVars>>
    /\ UNCHANGED <<crashed, sendErr, recvErr, received, starts, spawned, closes,
                   acceptedAtClose, lost,
                   afterReset>>

\* ---- the system ----

Next ==
    \/ Start
    \/ ListenRangeEnd \/ ListenEnqueue \/ ListenEnqueuePulse
    \/ ListenSetRunning \/ ListenDone
    \/ OutGet \/ OutDoFunc \/ OutPeek \/ OutOffer \/ OutDequeue
    \/ OutDequeuePulse \/ OutFnReturn \/ OutTeardown
    \/ SendCall \/ SendLoad \/ SendHandoff \/ SendPanic
    \/ ReceiveCall \/ ReceiveLoad \/ ReceiveClosed
    \/ CloseCall \/ CloseInbound \/ CloseNilInbound \/ CloseOutbound
    \/ CloseReturn
    \/ Reset

Spec == Init /\ [][Next]_vars

\* The Buffer with every Send call recorded against the Reset calls.
NextMarked ==
    \/ Start
    \/ ListenRangeEnd \/ ListenEnqueue \/ ListenEnqueuePulse
    \/ ListenSetRunning \/ ListenDone
    \/ OutGet \/ OutDoFunc \/ OutPeek \/ OutOffer \/ OutDequeue
    \/ OutDequeuePulse \/ OutFnReturn \/ OutTeardown
    \/ SendCallMarked \/ SendLoad \/ SendHandoff \/ SendPanic
    \/ ReceiveCall \/ ReceiveLoad \/ ReceiveClosed
    \/ CloseCall \/ CloseInbound \/ CloseNilInbound \/ CloseOutbound
    \/ CloseReturn
    \/ Reset

SpecMarked == Init /\ [][NextMarked]_vars

\* The steps of each goroutine the Buffer runs or is called from.
ListenStep ==
    \/ ListenRangeEnd \/ ListenEnqueue \/ ListenEnqueuePulse
    \/ ListenSetRunning \/ ListenDone

OutStep ==
    \/ OutGet \/ OutDoFunc \/ OutPeek \/ OutOffer \/ OutDequeue
    \/ OutDequeuePulse \/ OutFnReturn \/ OutTeardown

CloseStep == CloseInbound \/ CloseNilInbound \/ CloseOutbound \/ CloseReturn

ReceiveStep == ReceiveCall \/ ReceiveLoad \/ ReceiveClosed

\* Fair scheduling of the goroutines: the two loops Start spawns and a Close
\* call under way are not starved by the Go scheduler. Whether Send, Receive,
\* Reset, Start or Close are called at all is up to the callers.
SpecFair ==
    /\ Spec
    /\ WF_vars(ListenStep)
    /\ WF_vars(OutStep)
    /\ WF_vars(CloseStep)

\* Fair scheduling with a consumer that keeps calling Receive until it gets an
\* error.
SpecFairReceive == SpecFair /\ WF_vars(ReceiveStep)

\* ---- the Locker on its own ----

\* l.subjects[key] = subject in SetSubject: the key maps to a new Subject that
\* holds `value`.
SetSubject(s, key, value) ==
    [k \in DOMAIN s \cup {key} |-> IF k = key THEN value ELSE s[k]]

\* The error of ChangeValue: nil receiver, unknown key, or nil.
ChangeValueErr(l, s, key) ==
    IF l = Nil THEN ErrNilReceiver
    ELSE IF key \notin DOMAIN s THEN ErrKeyNotExist
    ELSE Nil

\* cond.Broadcast: every goroutine in cond.Wait is woken.
wakeAll(p) == [x \in DOMAIN p |-> IF p[x] = "wait" THEN "woken" ELSE p[x]]

\* cond.Signal: one of the goroutines in cond.Wait is woken, if any waits.
wakeOne(p) ==
    IF \E w \in Waiters : p[w] = "wait"
    THEN {[p EXCEPT ![w] = "woken"] : w \in {x \in Waiters : p[x] = "wait"}}
    ELSE {p}

\* Mutant: the observer signals whatever the broadcast flag is.
pulseSignals(bc, p) == wakeOne(p)

\* The pulse of the observer SetSubject attached: Broadcast or Signal.
pulse(bc, p) == IF bc THEN {wakeAll(p)} ELSE wakeOne(p)

\* Mutant: DoFunc takes the stop sentinel for a normal end.
doFuncResultHidesStop(err) == IF err = ErrStop THEN Nil ELSE err

\* `err := f(map_copy); return err`
doFuncResult(err) == err

\* l.mu is read-locked by hasFalse while it ranges over l.subjects.
lmuRLocked == \E w \in Waiters : lpc[w] = "hasFalse" /\ toRead # {}

\* The Locker has been created; SetSubject has not been called.
InitLocker ==
    /\ q = Nil /\ sendTo = Nil /\ receiveFrom = Nil /\ wg = 0
    /\ locker = "locker"
    /\ sendToClosed = FALSE /\ receiveFromClosed = FALSE
    /\ subjects = <<>>
    /\ nodes = <<>> /\ size = NoSubject /\ mu = Nil
    /\ pc = [p \in Procs |-> "idle"]
    /\ msg = 0 /\ peeked = 0 /\ mapCopy = <<>> /\ phase = "run"
    /\ next = 1 /\ sendCh = Nil /\ recvCh = Nil
    /\ crashed = FALSE /\ sendErr = Nil /\ recvErr = Nil /\ received = <<>>
    /\ starts = 0 /\ spawned = 0 /\ closes = 0 /\ resets = 0
    /\ acceptedAtClose = -1 /\ dropped = {} /\ lost = {} /\ afterReset = {}
    /\ LockerIdle
    /\ SubjectIdle
    /\ QueueIdle
    /\ LocksIdle
    /\ WritersIdle

\* SetSubject(key, value, broadcast): conditions are registered at start-up,
\* before any goroutine uses the Locker; a registered key is overwritten.
SetSubjectCall(key, value, bc) ==
    /\ \A p \in Waiters \cup Changers : lpc[p] = "idle"
    /\ dfCalls = 0 /\ cvCalls = 0
    /\ subjects' = SetSubject(subjects, key, value)
    /\ broadcast' = SetSubject(broadcast, key, bc)
    /\ UNCHANGED <<outsideLocker, condL, lpc, toRead, map_copy, ckey, cval,
                   lockerHist>>

\* DoFunc: l.cond.L.Lock(), and hasFalse starts its range over l.subjects.
DoFuncLocks(w) ==
    /\ lpc[w] = "idle"
    /\ dfCalls < MaxDoFunc
    /\ locker # Nil
    /\ condL = Nil
    /\ condL' = w
    /\ lpc' = [lpc EXCEPT ![w] = "hasFalse"]
    /\ toRead' = DOMAIN subjects
    /\ map_copy' = [map_copy EXCEPT ![w] = <<>>]
    /\ dfCalls' = dfCalls + 1
    /\ UNCHANGED <<outsideLocker, subjects, broadcast, ckey, cval, fCalls, fErr>>
    /\ UNCHANGED <<dfErr, cvCalls, cvErr, getVal>>

DoFuncLock(w) == DoFuncLocks(w) /\ UNCHANGED held

\* The same step, recorded: the conditions as they are when the call begins.
DoFuncLockHeld(w) == DoFuncLocks(w) /\ held' = [held EXCEPT ![w] = {subjects}]

\* hasFalse: map_copy[key] = value.MustGet() for one key of the range, in the
\* order the map iteration yields.
HasFalseRead(w, key) ==
    /\ lpc[w] = "hasFalse"
    /\ key \in toRead
    /\ map_copy' = [map_copy EXCEPT ![w] = SetSubject(@, key, subjects[key])]
    /\ toRead' = toRead \ {key}
    /\ UNCHANGED <<outsideLocker, subjects, broadcast, condL, lpc, ckey, cval,
                   lockerHist>>

\* DoFunc after hasFalse returned: with a false value in the snapshot it
\* unlocks cond.L and goes on to f; otherwise cond.Wait puts the goroutine on
\* the wait list and unlocks cond.L.
DoFuncCheck(w) ==
    /\ lpc[w] = "hasFalse"
    /\ toRead = {}
    /\ condL' = Nil
    /\ IF hasFalse(map_copy[w])
       THEN lpc' = [lpc EXCEPT ![w] = "f"]
       ELSE lpc' = [lpc EXCEPT ![w] = "wait"]
    /\ UNCHANGED <<outsideLocker, subjects, broadcast, toRead, map_copy, ckey, cval,
                   lockerHist>>

\* cond.Wait returns: the woken goroutine locks cond.L again and the loop calls
\* hasFalse again.
WaitReturn(w) ==
    /\ lpc[w] = "woken"
    /\ condL = Nil
    /\ condL' = w
    /\ lpc' = [lpc EXCEPT ![w] = "hasFalse"]
    /\ toRead' = DOMAIN subjects
    /\ map_copy' = [map_copy EXCEPT ![w] = <<>>]
    /\ UNCHANGED <<outsideLocker, subjects, broadcast, ckey, cval, lockerHist>>

\* err := f(map_copy): f runs and returns one of its errors.
FCall(w, e) ==
    /\ lpc[w] = "f"
    /\ fCalls' = [fCalls EXCEPT ![w] = @ + 1]
    /\ fErr' = [fErr EXCEPT ![w] = e]
    /\ lpc' = [lpc EXCEPT ![w] = "fret"]
    /\ UNCHANGED <<outsideLocker, subjects, broadcast, condL, toRead, map_copy, ckey,
                   cval>>
    /\ UNCHANGED <<dfCalls, dfErr, cvCalls, cvErr, getVal>>
    /\ UNCHANGED held

\* DoFunc returns the error of f; its locals are gone.
DoFuncReturns(w) ==
    /\ lpc[w] = "fret"
    /\ dfErr' = doFuncResult(fErr[w])
    /\ lpc' = [lpc EXCEPT ![w] = "idle"]
    /\ map_copy' = [map_copy EXCEPT ![w] = <<>>]
    /\ fErr' = [fErr EXCEPT ![w] = Nil]
    /\ fCalls' = [fCalls EXCEPT ![w] = 0]
    /\ UNCHANGED <<outsideLocker, subjects, broadcast, condL, toRead, ckey, cval>>
    /\ UNCHANGED <<dfCalls, cvCalls, cvErr, getVal>>

DoFuncReturn(w) == DoFuncReturns(w) /\ UNCHANGED held

\* The same step, recorded: the call is over.
DoFuncReturnHeld(w) == DoFuncReturns(w) /\ held' = [held EXCEPT ![w] = {}]

\* A ChangeValue(key, value) call begins.
ChangeValueCall(c, key, value) ==
    /\ lpc[c] = "idle"
    /\ cvCalls < MaxChange
    /\ cvCalls' = cvCalls + 1
    /\ lpc' = [lpc EXCEPT ![c] = "cvLookup"]
    /\ ckey' = [ckey EXCEPT ![c] = key]
    /\ cval' = [cval EXCEPT ![c] = value]
    /\ UNCHANGED <<outsideLocker, subjects, broadcast, condL, toRead, map_copy>>
    /\ UNCHANGED <<dfCalls, fCalls, fErr, dfErr, cvErr, getVal>>
    /\ UNCHANGED held

\* ChangeValue: the lookup of the key under l.mu.Lock(), which waits for the
\* read lock of hasFalse; with an error the call returns it.
ChangeValueLookup(c) ==
    /\ lpc[c] = "cvLookup"
    /\ ~lmuRLocked
    /\ IF ChangeValueErr(locker, subjects, ckey[c]) = Nil
       THEN /\ lpc' = [lpc EXCEPT ![c] = "set"]
            /\ UNCHANGED <<subjects, cvErr, ckey, cval>>
       ELSE /\ subjects' = ChangeValue(locker, subjects, ckey[c], cval[c])
            /\ cvErr' = ChangeValueErr(locker, subjects, ckey[c])
            /\ lpc' = [lpc EXCEPT ![c] = "idle"]
            /\ ckey' = [ckey EXCEPT ![c] = IsEmpty]
            /\ cval' = [cval EXCEPT ![c] = FALSE]
    /\ UNCHANGED <<outsideLocker, broadcast, condL, toRead, map_copy>>
    /\ UNCHANGED <<dfCalls, fCalls, fErr, dfErr, cvCalls, getVal>>
    /\ UNCHANGED held

\* The map of condition values m is the Locker's from now on: it is added to
\* what held during each DoFunc call under way.
nowHeld(h, p, m) ==
    [w \in DOMAIN h |-> IF p[w] = "idle" THEN h[w] ELSE h[w] \cup {m}]

\* subject.Set(value): the write of the state under the Subject's lock.
ChangeValueSets(c) ==
    /\ lpc[c] = "set"
    /\ subjects' = ChangeValue(locker, subjects, ckey[c], cval[c])
    /\ lpc' = [lpc EXCEPT ![c] = "notify"]
    /\ UNCHANGED <<outsideLocker, broadcast, condL, toRead, map_copy, ckey, cval>>
    /\ UNCHANGED <<dfCalls, fCalls, fErr, dfErr, cvCalls, cvErr, getVal>>

ChangeValueSet(c) == ChangeValueSets(c) /\ UNCHANGED held

\* The same step, recorded: the conditions as they are after the write.
ChangeValueSetHeld(c) == ChangeValueSets(c) /\ held' = nowHeld(held, lpc, subjects')

\* NotifyAll runs the key's observer: cond.L.Lock(), the pulse, Unlock(); then
\* ChangeValue returns nil and its locals are gone.
ChangeValuePulse(c) ==
    /\ lpc[c] = "notify"
    /\ condL = Nil
    /\ \E p \in pulse(broadcast[ckey[c]], lpc) : lpc' = [p EXCEPT ![c] = "idle"]
    /\ cvErr' = Nil
    /\ ckey' = [ckey EXCEPT ![c] = IsEmpty]
    /\ cval' = [cval EXCEPT ![c] = FALSE]
    /\ UNCHANGED <<outsideLocker, subjects, broadcast, condL, toRead, map_copy>>
    /\ UNCHANGED <<dfCalls, fCalls, fErr, dfErr, cvCalls, getVal>>
    /\ UNCHANGED held

\* A Get(key) call begins.
GetCall(c, key) ==
    /\ lpc[c] = "idle"
    /\ cvCalls < MaxChange
    /\ cvCalls' = cvCalls + 1
    /\ lpc' = [lpc EXCEPT ![c] = "getLookup"]
    /\ ckey' = [ckey EXCEPT ![c] = key]
    /\ UNCHANGED <<outsideLocker, subjects, broadcast, condL, toRead, map_copy, cval>>
    /\ UNCHANGED <<dfCalls, fCalls, fErr, dfErr, cvErr, getVal>>
    /\ UNCHANGED held

\* Get: the lookup under l.mu.RLock() and val.MustGet(), or the error.
GetReturn(c) ==
    /\ lpc[c] = "getLookup"
    /\ locker # Nil
    /\ cvErr' = Get(subjects, ckey[c]).err
    /\ getVal' = Get(subjects, ckey[c]).val
    /\ lpc' = [lpc EXCEPT ![c] = "idle"]
    /\ ckey' = [ckey EXCEPT ![c] = IsEmpty]
    /\ UNCHANGED <<outsideLocker, subjects, broadcast, condL, toRead, map_copy, cval>>
    /\ UNCHANGED <<dfCalls, fCalls, fErr, dfErr, cvCalls>>
    /\ UNCHANGED held

NextLocker ==
    \/ \E key \in Keys, value, bc \in BOOLEAN : SetSubjectCall(key, value, bc)
    \/ \E w \in Waiters : DoFuncLock(w)
    \/ \E w \in Waiters, key \in Keys : HasFalseRead(w, key)
    \/ \E w \in Waiters : DoFuncCheck(w)
    \/ \E w \in Waiters : WaitReturn(w)
    \/ \E w \in Waiters, e \in FErrors : FCall(w, e)
    \/ \E w \in Waiters : DoFuncReturn(w)
    \/ \E c \in Changers, key \in AllKeys, value \in BOOLEAN :
          ChangeValueCall(c, key, value)
    \/ \E c \in Changers : ChangeValueLookup(c)
    \/ \E c \in Changers : ChangeValueSet(c)
    \/ \E c \in Changers : ChangeValuePulse(c)
    \/ \E c \in Changers, key \in AllKeys : GetCall(c, key)
    \/ \E c \in Changers : GetReturn(c)

SpecLocker == InitLocker /\ [][NextLocker]_vars

\* The steps of a DoFunc call under way, and of a ChangeValue or Get call under
\* way.
DoFuncStep(w) ==
    \/ \E key \in Keys : HasFalseRead(w, key)
    \/ DoFuncCheck(w) \/ WaitReturn(w)
    \/ (\E e \in FErrors : FCall(w, e)) \/ DoFuncReturn(w)

ChangeValueStep(c) ==
    ChangeValueLookup(c) \/ ChangeValueSet(c) \/ ChangeValuePulse(c) \/ GetReturn(c)

\* Fair scheduling of the goroutines that are inside a call of the Locker;
\* whether a call is made at all is up to the callers.
SpecLockerFair ==
    /\ SpecLocker
    /\ \A w \in Waiters : WF_vars(DoFuncStep(w))
    /\ \A c \in Changers : WF_vars(ChangeValueStep(c))

\* ---- the Locker with two goroutines that change conditions ----

\* The goroutines that call ChangeValue, each on a key of its own choice.
SnapChangers == {"c1", "c2"}

\* The Locker after the start-up registrations: every key has a Subject, as
\* after the SetSubject calls of Buffer.Start, with any values and flags.
InitSnapshot ==
    /\ q = Nil /\ sendTo = Nil /\ receiveFrom = Nil /\ wg = 0
    /\ locker = "locker"
    /\ sendToClosed = FALSE /\ receiveFromClosed = FALSE
    /\ subjects \in [Keys -> BOOLEAN]
    /\ nodes = <<>> /\ size = NoSubject /\ mu = Nil
    /\ pc = [p \in Procs |-> "idle"]
    /\ msg = 0 /\ peeked = 0 /\ mapCopy = <<>> /\ phase = "run"
    /\ next = 1 /\ sendCh = Nil /\ recvCh = Nil
    /\ crashed = FALSE /\ sendErr = Nil /\ recvErr = Nil /\ received = <<>>
    /\ starts = 0 /\ spawned = 0 /\ closes = 0 /\ resets = 0
    /\ acceptedAtClose = -1 /\ dropped = {} /\ lost = {} /\ afterReset = {}
    /\ broadcast \in [Keys -> BOOLEAN] /\ condL = Nil
    /\ lpc = [p \in Waiters \cup SnapChangers |-> "idle"]
    /\ toRead = {}
    /\ map_copy = [w \in Waiters |-> <<>>]
    /\ ckey = [c \in SnapChangers |-> IsEmpty]
    /\ cval = [c \in SnapChangers |-> FALSE]
    /\ dfCalls = 0 /\ fCalls = [w \in Waiters |-> 0]
    /\ fErr = [w \in Waiters |-> Nil] /\ dfErr = Nil
    /\ cvCalls = 0 /\ cvErr = Nil /\ getVal = FALSE
    /\ held = [w \in Waiters |-> {}]
    /\ SubjectIdle
    /\ QueueIdle
    /\ LocksIdle
    /\ WritersIdle

NextSnapshot ==
    \/ \E w \in Waiters : DoFuncLockHeld(w)
    \/ \E w \in Waiters, key \in Keys : HasFalseRead(w, key)
    \/ \E w \in Waiters : DoFuncCheck(w)
    \/ \E w \in Waiters : WaitReturn(w)
    \/ \E w \in Waiters, e \in FErrors : FCall(w, e)
    \/ \E w \in Waiters : DoFuncReturnHeld(w)
    \/ \E c \in SnapChangers, key \in Keys, value \in BOOLEAN :
          ChangeValueCall(c, key, value)
    \/ \E c \in SnapChangers : ChangeValueLookup(c)
    \/ \E c \in SnapChangers : ChangeValueSetHeld(c)
    \/ \E c \in SnapChangers : ChangeValuePulse(c)

SpecSnapshot == InitSnapshot /\ [][NextSnapshot]_vars

\* ---- the Subject on its own ----

\* The error a failing observer returns.
ErrObserver == {<<>>}

\* The mutators Edit is called with: a no-op, an increment, a reset to zero
\* ("nil" is the nil function, which Edit does not call).
applyFn(fn, x) ==
    CASE fn = "inc" -> x + 1
      [] fn = "zero" -> 0
      [] OTHER -> x

\* The state a Set(arg) or an Edit(fn) call writes under s.mu.
newState(op, arg, fn, old) == IF op = "set" THEN arg ELSE applyFn(fn, old)

\* Mutant: the write calls keep s.mu until they return.
unlockDeferred(a) == a

\* s.mu.Unlock() after the write, before NotifyAll.
unlock(a) == Free

\* Mutant: Set and Edit notify only when the state changed.
notifyIfChanged(same) == ~same

\* Set and Edit call NotifyAll after every write.
notifyAfter(same) == TRUE

\* Mutant: every closure of NotifyAll sees the observer of the last iteration.
loopVarShared(i, n) == n

\* The observer the closure of NotifyAll's i-th iteration calls (of n).
loopVar(i, n) == i

\* errors.Join of the errors of the n-th NotifyAll call: the non-nil errors,
\* each with the index of its closure; nil when there is none.
joinErrs(g, n, len) ==
    UNION {{<<i>> \o e : e \in g[<<n, i>>].err} : i \in 1..len}

\* A write call of goroutine a returns the error of its NotifyAll: a client is
\* idle again and holds the error, an observer's Notify returns that error.
return(a, r, errs) ==
    IF a \in Clients
    THEN [IdleAgent EXCEPT !.err = errs]
    ELSE [r EXCEPT !.pc = "done", !.err = errs]

\* The NotifyAll calls that have not returned are numbered; a new call takes
\* the first number that is free.
freeNote(ns) == CHOOSE n \in 1..(Cardinality(DOMAIN ns) + 1) :
                    /\ n \notin DOMAIN ns
                    /\ \A k \in 1..(n - 1) : k \in DOMAIN ns

\* The goroutines NotifyAll starts for its n-th call.
closures(n, len) == {<<n, i>> : i \in 1..len}

\* The Subject has been created; nothing is attached.
InitSubject ==
    /\ q = Nil /\ sendTo = Nil /\ receiveFrom = Nil /\ wg = 0 /\ locker = Nil
    /\ sendToClosed = FALSE /\ receiveFromClosed = FALSE
    /\ subjects = <<>>
    /\ nodes = <<>> /\ size = NoSubject /\ mu = Nil
    /\ pc = [p \in Procs |-> "idle"]
    /\ msg = 0 /\ peeked = 0 /\ mapCopy = <<>> /\ phase = "run"
    /\ next = 1 /\ sendCh = Nil /\ recvCh = Nil
    /\ crashed = FALSE /\ sendErr = Nil /\ recvErr = Nil /\ received = <<>>
    /\ starts = 0 /\ spawned = 0 /\ closes = 0 /\ resets = 0
    /\ acceptedAtClose = -1 /\ dropped = {} /\ lost = {} /\ afterReset = {}
    /\ LockerIdle
    /\ SubjectIdle
    /\ QueueIdle
    /\ LocksIdle
    /\ WritersIdle

\* Attach(o) before the Subject is shared: Lock, append, Unlock.
AttachCall(c, kind) ==
    /\ ag[c].pc = "idle"
    /\ ops = 0
    /\ Len(observers) < MaxObs
    /\ inOrder(observers, kind)
    /\ smu = Free
    /\ observers' = Append(observers, kind)
    /\ UNCHANGED <<outsideSubject, state, smu, ag, notes, ops>>

\* A client calls Set(value).
SetCall(c, value) ==
    /\ ag[c].pc = "idle"
    /\ ops < MaxOps
    /\ ops' = ops + 1
    /\ ag' = [ag EXCEPT ![c] = [IdleAgent EXCEPT !.pc = "lock", !.op = "set",
                                                 !.arg = value]]
    /\ UNCHANGED <<outsideSubject, state, observers, smu, notes>>

\* A client calls Edit(fn); with the nil function Edit returns nil at once.
EditCall(c, fn) ==
    /\ ag[c].pc = "idle"
    /\ ops < MaxOps
    /\ ops' = ops + 1
    /\ ag' = [ag EXCEPT ![c] = [IdleAgent EXCEPT
                                  !.pc = IF fn = "nil" THEN "idle" ELSE "lock",
                                  !.op = "edit", !.fn = fn]]
    /\ UNCHANGED <<outsideSubject, state, observers, smu, notes>>

\* Set and Edit: s.mu.Lock() and the write of s.state.
WriteLock(a) ==
    /\ ag[a].pc = "lock"
    /\ smu = Free
    /\ smu' = a
    /\ state' = newState(ag[a].op, ag[a].arg, ag[a].fn, state)
    /\ ag' = [ag EXCEPT ![a].pc = "unlock", ![a].same = (state' = state)]
    /\ UNCHANGED <<outsideSubject, observers, notes, ops>>

\* Set and Edit: s.mu.Unlock(), then the call of NotifyAll.
WriteUnlock(a) ==
    /\ ag[a].pc = "unlock"
    /\ smu' = unlock(a)
    /\ IF notifyAfter(ag[a].same)
       THEN ag' = [ag EXCEPT ![a].pc = "snap"]
       ELSE ag' = [ag EXCEPT ![a] = return(a, @, {})]
    /\ UNCHANGED <<outsideSubject, state, observers, notes, ops>>

\* NotifyAll: the snapshot of state and observers under s.mu.RLock(), and one
\* goroutine started per observer of the snapshot.
Snapshot(a) ==
    /\ ag[a].pc = "snap"
    /\ smu = Free
    /\ LET n == freeNote(notes)
       IN  /\ notes' = [k \in DOMAIN notes \cup {n} |->
                          IF k = n THEN [state |-> state, obs |-> observers]
                          ELSE notes[k]]
           /\ ag' = [x \in DOMAIN ag \cup closures(n, Len(observers)) |->
                       IF x = a THEN [ag[a] EXCEPT !.pc = "wait", !.note = n]
                       ELSE IF x \in DOMAIN ag THEN ag[x]
                       ELSE [IdleAgent EXCEPT !.pc = "pending"]]
    /\ UNCHANGED <<outsideSubject, state, observers, smu, ops>>

\* The closure of one observer: err := o.Notify(state), up to the end of the
\* first critical section of the call. An observer that fails, or has nothing
\* to do, returns; one that calls s.Get() (RLock, read, RUnlock) or
\* s.Attach(o) (Lock, append, Unlock) returns nil after that call; one that
\* writes has taken s.mu and written the state of its Set or Edit call.
Notify(n, i) ==
    /\ <<n, i>> \in DOMAIN ag
    /\ ag[<<n, i>>].pc = "pending"
    /\ LET kind == notes[n].obs[loopVar(i, Len(notes[n].obs))]
           v == notes[n].state
           r == [ag[<<n, i>>] EXCEPT !.calls = @ + 1, !.got = v,
                                     !.who = loopVar(i, Len(notes[n].obs))]
           writes == kind \in {"set", "edit"} /\ v # 0
           attaches == /\ kind = "attach" /\ v # 0
                       /\ observers[loopVar(i, Len(notes[n].obs))] = "attach"
       IN  /\ (kind = "get" \/ writes \/ attaches) => smu = Free
           /\ observers' =
                IF attaches
                THEN Append([observers EXCEPT
                               ![loopVar(i, Len(notes[n].obs))] = "attached"],
                            "get")
                ELSE observers
           /\ smu' = IF writes THEN <<n, i>> ELSE smu
           /\ state' = IF writes THEN 0 ELSE state
           /\ ag' = [ag EXCEPT ![<<n, i>>] =
                CASE kind = "fail" -> [r EXCEPT !.pc = "done", !.err = ErrObserver]
                  [] kind = "set" /\ v # 0 ->
                        [r EXCEPT !.pc = "unlock", !.op = "set", !.arg = 0,
                                  !.same = (state = 0)]
                  [] kind = "edit" /\ v # 0 ->
                        [r EXCEPT !.pc = "unlock", !.op = "edit", !.fn = "zero",
                                  !.same = (state = 0)]
                  [] OTHER -> [r EXCEPT !.pc = "done"]]
    /\ UNCHANGED <<outsideSubject, notes, ops>>

\* NotifyAll: wg.Wait() is over, errors.Join(errs...) is returned, and the
\* Set or Edit call returns it; the closures and the snapshot are gone.
Join(a) ==
    /\ ag[a].pc = "wait"
    /\ LET n == ag[a].note
           len == Len(notes[n].obs)
       IN  /\ \A x \in closures(n, len) : ag[x].pc = "done"
           /\ notes' = [k \in DOMAIN notes \ {n} |-> notes[k]]
           /\ ag' = [x \in DOMAIN ag \ closures(n, len) |->
                       IF x = a THEN return(a, ag[a], joinErrs(ag, n, len))
                       ELSE ag[x]]
    /\ UNCHANGED <<outsideSubject, state, observers, smu, ops>>

NextSubject ==
    \/ \E c \in Clients, kind \in Kinds : AttachCall(c, kind)
    \/ \E c \in Clients, value \in {0, 1} : SetCall(c, value)
    \/ \E c \in Clients, fn \in {"nil", "noop", "inc"} : EditCall(c, fn)
    \/ \E a \in DOMAIN ag : WriteLock(a)
    \/ \E a \in DOMAIN ag : WriteUnlock(a)
    \/ \E a \in DOMAIN ag : Snapshot(a)
    \/ \E a \in DOMAIN ag : Notify(a[1], a[2])
    \/ \E a \in DOMAIN ag : Join(a)

SpecSubject == InitSubject /\ [][NextSubject]_vars

\* The steps of the calls under way, as opposed to the start of a new call.
SubjectStep ==
    \E a \in DOMAIN ag :
        \/ WriteLock(a) \/ WriteUnlock(a) \/ Snapshot(a)
        \/ Notify(a[1], a[2]) \/ Join(a)

\* ---- the Queue on its own ----

\* The values enqueued.
QValues == {1, 2}

\* The nodes linked from node n on, in order.
RECURSIVE chain(_, _)
chain(h, n) == IF n = NilNode THEN <<>> ELSE <<n>> \o chain(h, h[n].next)

\* &queue_node[T]{value: value}: a node that is not in memory yet.
newNode(h) == CHOOSE n \in 1..(Cardinality(DOMAIN h) + 1) : n \notin DOMAIN h

\* The garbage collector: the nodes that front or back still lead to.
collect(h, f, b) ==
    LET live == {chain(h, f)[i] : i \in 1..Len(chain(h, f))}
                \cup {chain(h, b)[i] : i \in 1..Len(chain(h, b))}
    IN  [n \in live |-> h[n]]

\* NotifyAll of the size Subject: each observer is given the state.
notifySize(sz, sent) ==
    IF sz.observers > 0 THEN Append(sent, sz.state) ELSE sent

\* Mutant: Dequeue leaves back alone.
backKept(h, f, b) == b

\* Dequeue: back is cut off with front when the front node is the last one.
backAfterDequeue(h, f, b) == IF h[f].next = NilNode THEN NilNode ELSE b

\* Mutant: Dequeue edits the size before it looks at front.
editsBeforeCheck(f) == TRUE

\* Dequeue edits the size once it has found a front node.
editsSize(f) == f # NilNode

\* InitQueue: the Queue has been created; nothing else is in use.
InitQueue ==
    /\ q = Nil /\ sendTo = Nil /\ receiveFrom = Nil /\ wg = 0 /\ locker = Nil
    /\ sendToClosed = FALSE /\ receiveFromClosed = FALSE
    /\ subjects = <<>>
    /\ nodes = <<>> /\ size = NoSubject /\ mu = Nil
    /\ pc = [p \in Procs |-> "idle"]
    /\ msg = 0 /\ peeked = 0 /\ mapCopy = <<>> /\ phase = "run"
    /\ next = 1 /\ sendCh = Nil /\ recvCh = Nil
    /\ crashed = FALSE /\ sendErr = Nil /\ recvErr = Nil /\ received = <<>>
    /\ starts = 0 /\ spawned = 0 /\ closes = 0 /\ resets = 0
    /\ acceptedAtClose = -1 /\ dropped = {} /\ lost = {} /\ afterReset = {}
    /\ LockerIdle
    /\ SubjectIdle
    /\ QueueIdle
    /\ LocksIdle
    /\ WritersIdle

\* Queue.Enqueue(value), under queue.mu from Lock to the deferred Unlock.
Enqueue(value) ==
    /\ qops < MaxQueueOps /\ qops' = qops + 1
    /\ LET node == newNode(heap)
           h == [n \in DOMAIN heap \cup {node} |->
                   IF n = node THEN [value |-> value, next |-> NilNode]
                   ELSE heap[n]]
       IN  /\ front' = IF back = NilNode THEN node ELSE front
           /\ heap' = IF back = NilNode THEN h
                      ELSE [h EXCEPT ![back].next = node]
           /\ back' = node
    /\ size' = Edit(sizeOrNew(size), 1)
    /\ sizeSent' = notifySize(size', sizeSent)
    /\ nodes' = linkBack(nodes, value)
    /\ qret' = [op |-> "Enqueue", value |-> 0, err |-> Nil]
    /\ UNCHANGED outsideQueue

\* Queue.Dequeue(), under queue.mu from Lock to the deferred Unlock.
Dequeue ==
    /\ qops < MaxQueueOps /\ qops' = qops + 1
    /\ size' = IF editsSize(front) THEN Edit(size, -1) ELSE size
    /\ sizeSent' = IF editsSize(front) THEN notifySize(size', sizeSent)
                   ELSE sizeSent
    /\ IF front = NilNode
       THEN /\ qret' = [op |-> "Dequeue", value |-> 0, err |-> ErrEmptyQueue]
            /\ UNCHANGED <<front, back, heap, nodes>>
       ELSE /\ front' = heap[front].next
            /\ back' = backAfterDequeue(heap, front, back)
            /\ heap' = collect(heap, front', back')
            /\ nodes' = unlinkFront(nodes)
            /\ qret' = [op |-> "Dequeue", value |-> heap[front].value,
                        err |-> Nil]
    /\ UNCHANGED outsideQueue

\* Queue.Peek(), under queue.mu.RLock.
PeekCall ==
    /\ qops < MaxQueueOps /\ qops' = qops + 1
    /\ qret' = IF front = NilNode
               THEN [op |-> "Peek", value |-> 0, err |-> ErrEmptyQueue]
               ELSE [op |-> "Peek", value |-> heap[front].value, err |-> Nil]
    /\ UNCHANGED <<outsideQueue, front, back, heap, nodes, size, sizeSent>>

\* Queue.Size(): queue.size.MustGet(), 0 when the size Subject is nil.
Size ==
    /\ qops < MaxQueueOps /\ qops' = qops + 1
    /\ qret' = [op |-> "Size", err |-> Nil,
                value |-> IF size = NoSubject THEN 0 ELSE size.state]
    /\ UNCHANGED <<outsideQueue, front, back, heap, nodes, size, sizeSent>>

\* Queue.Reset(): nothing on an empty queue, otherwise front, back and size
\* are set to nil.
ResetQueue ==
    /\ qops < MaxQueueOps /\ qops' = qops + 1
    /\ IF front = NilNode
       THEN UNCHANGED <<front, back, heap, nodes, size>>
       ELSE /\ front' = NilNode /\ back' = NilNode
            /\ heap' = collect(heap, NilNode, NilNode)
            /\ size' = NoSubject
            /\ nodes' = <<>>
    /\ qret' = [op |-> "Reset", value |-> 0, err |-> Nil]
    /\ UNCHANGED <<outsideQueue, sizeSent>>

\* Queue.ObserveSize(fn) with a function: the size Subject is created if it
\* is nil and the observer attached to it.
ObserveSize ==
    /\ qops < MaxQueueOps /\ qops' = qops + 1
    /\ size' = [sizeOrNew(size) EXCEPT !.observers = @ + 1]
    /\ qret' = [op |-> "ObserveSize", value |-> 0, err |-> Nil]
    /\ UNCHANGED <<outsideQueue, front, back, heap, nodes, sizeSent>>

NextQueue ==
    \/ \E value \in QValues : Enqueue(value)
    \/ Dequeue
    \/ PeekCall
    \/ Size
    \/ ResetQueue
    \/ ObserveSize

SpecQueue == InitQueue /\ [][NextQueue]_vars

\* ---- helpers of the properties ----

Range(seq) == {seq[i] : i \in 1..Len(seq)}

\* The step is a Send call: the producer leaves "idle" only by SendCall.
SendCalled == pc["prod"] = "idle" /\ pc'["prod"] # "idle"

\* The step is a Receive call: the consumer leaves "idle" only by ReceiveCall.
ReceiveCalled == pc["cons"] = "idle" /\ pc'["cons"] # "idle"

\* The step is a Close call, which either returns at once or starts closing.
CloseCalled ==
    pc["closer"] = "idle" /\ (closes' # closes \/ pc'["closer"] # "idle")

\* The step is a Start call.
StartCalled == starts' = starts + 1

\* ---- C1 ----
\* C1: FIFO delivery. While Reset has never been called, the i-th value that
\* Receive returned is the i-th value sent (the producer sends 1, 2, ...), in
\* every interleaving of the producer, the consumer, the two loops and Close.
C1_FIFO ==
    resets = 0 => \A i \in 1..Len(received) : received[i] = i

\* All the messages went through the relay.
C1_Witness ==
    /\ resets = 0
    /\ Len(received) = MaxSend
    /\ MaxSend >= 2

\* ---- C2 ----
\* C2: no loss under close. While Reset has never been called, once the
\* outbound channel is closed or a Receive has returned the already-closed
\* error, every value whose Send had returned nil when Close was invoked (and
\* every value accepted later) has been returned by Receive.
C2_NoLossUnderClose ==
    (resets = 0 /\ (receiveFromClosed \/ recvErr = ErrAlreadyClosed))
        => /\ acceptedAtClose >= 0
           /\ Len(received) >= acceptedAtClose
           /\ Len(received) = next - 1

\* Close was invoked after every Send had returned, and the consumer drained
\* them all before its Receive failed.
C2_Witness ==
    /\ resets = 0
    /\ recvErr = ErrAlreadyClosed
    /\ acceptedAtClose = MaxSend
    /\ Len(received) = MaxSend

\* ---- C3 ----
\* C3: a Receive invoked after Close has returned returns the already-closed
\* error in its first step, and a Receive blocked on the outbound channel when
\* Close closes it can only return the already-closed error, and can return
\* (its return is enabled as long as the process has not crashed); neither
\* returns a value.
C3_ReturnsClosed ==
    /\ pc'["cons"] = "stopped"
    /\ recvErr' = ErrAlreadyClosed
    /\ received' = received

C3_BlockedAtClose ==
    pc["cons"] = "rwait" /\ recvCh = "chan" /\ receiveFromClosed

C3_PostCloseReceive ==
    /\ [][(closes > 0 /\ ReceiveCalled) => C3_ReturnsClosed]_vars
    /\ [][(C3_BlockedAtClose /\ pc'["cons"] # "rwait") => C3_ReturnsClosed]_vars
    /\ [](C3_BlockedAtClose /\ ~crashed => ENABLED ReceiveClosed)

\* The consumer was blocked in Receive when Close closed the outbound channel
\* (Close has not returned yet) and got the error.
C3_Witness ==
    /\ pc["closer"] = "nilOut"
    /\ pc["cons"] = "stopped"
    /\ recvErr = ErrAlreadyClosed

\* The consumer called Receive for the first time after Close had returned.
C3_WitnessAfterClose ==
    /\ closes > 0
    /\ pc["cons"] = "stopped"
    /\ recvErr = ErrAlreadyClosed
    /\ recvCh = Nil

\* ---- C4 ----
\* C4: Close ordering. Whenever the outbound channel is closed, both loops have
\* terminated and the queue holds no item (nor does the inbound loop hold a
\* value it has not enqueued yet).
C4_CloseOrdering ==
    receiveFromClosed
        => /\ pc["listen"] = "done"
           /\ pc["out"] = "done"
           /\ nodes = <<>>

\* The outbound channel is closed in a run in which an item was delivered and
\* Reset was called.
C4_Witness ==
    /\ receiveFromClosed
    /\ Len(received) >= 1
    /\ resets > 0

\* ---- C5 ----
\* C5: every Send and Receive ends with success, the nil-receiver error or the
\* already-closed error: no goroutine panics and no call is stuck on a nil
\* channel, in every interleaving with Reset and one Close.
C5_OnlyPublicErrors ==
    closes + (IF pc["closer"] = "idle" THEN 0 ELSE 1) <= 1
        => /\ ~crashed
           /\ sendErr \in {Nil, ErrNilReceiver, ErrAlreadyClosed}
           /\ recvErr \in {Nil, ErrNilReceiver, ErrAlreadyClosed}
           /\ ~(pc["prod"] = "swait" /\ sendCh = Nil)
           /\ ~(pc["cons"] = "rwait" /\ recvCh = Nil)

\* ---- C6 ----
\* C6: a Send invoked when Close has torn down the inbound channel (the field
\* is nil) returns the already-closed error in its first step, and its message
\* is never taken by the inbound loop, queued or delivered.
C6_SendAfterTeardown ==
    /\ [][(sendTo = Nil /\ SendCalled)
            => /\ pc'["prod"] = "stopped"
               /\ sendErr' = ErrAlreadyClosed
               /\ UNCHANGED <<next, msg, nodes, received>>]_vars
    /\ [](pc["prod"] = "stopped"
            => /\ sendErr = ErrAlreadyClosed
               /\ \A v \in Range(nodes) \cup Range(received) : v < next
               /\ (pc["listen"] \in {"enq", "enqPulse"} => msg < next))

\* A Send of a message (there was one left to send) failed after the teardown.
C6_Witness ==
    /\ pc["prod"] = "stopped"
    /\ sendErr = ErrAlreadyClosed
    /\ next <= MaxSend
    /\ sendTo = Nil

\* ---- C7 ----
\* C7: a Start call on a started Buffer on which Close was not invoked changes
\* nothing: the queue, the Locker, both channels and the loops stay the ones
\* of the first call; two loops were launched, and no item is delivered twice.
C7_IdempotentStart ==
    /\ [][(StartCalled /\ locker # Nil)
            => UNCHANGED <<bufVars, chanVars, subjects, queueVars, pc, localVars,
                           spawned, received>>]_vars
    /\ [](spawned <= 2)
    /\ [](\A i, j \in 1..Len(received) : received[i] = received[j] => i = j)

\* Start was called again, and items were delivered afterwards.
C7_Witness ==
    /\ starts >= 2
    /\ spawned = 2
    /\ Len(received) >= 2

\* ---- C8 ----
\* C8: a Close invoked after an earlier Close has returned returns at once: it
\* closes no channel, does not wait, and leaves the Buffer, its channels, its
\* queue and its goroutines as they are.
C8_IdempotentClose ==
    [][(closes > 0 /\ CloseCalled)
         => /\ closes' = closes + 1
            /\ UNCHANGED <<bufVars, chanVars, subjects, queueVars, pc, localVars,
                           crashed, received>>]_vars

\* The second Close has returned.
C8_Witness ==
    /\ closes >= 2
    /\ ~crashed
    /\ receiveFromClosed

\* ---- C9 ----
\* C9: no item that was in the queue when a Reset ran is returned by a Receive
\* after that Reset; a Reset changes nothing but the queue, and nothing at all
\* when the Buffer's queue is absent.
C9_ResetDiscardsPending ==
    /\ [][received' # received => received'[Len(received')] \notin dropped]_vars
    /\ [][resets' # resets
            => /\ UNCHANGED <<bufVars, chanVars, subjects, pc, localVars, received>>
               /\ (q = Nil => UNCHANGED queueVars)]_vars

\* ---- C10 ----
\* C10: on a started Buffer, in every state in which no queue operation is in
\* progress (queue.mu is free), the Locker's IsEmpty condition is true exactly
\* when the queue holds no item.
C10_IsEmptyMirrorsQueue ==
    (locker # Nil /\ mu = Nil) => (subjects[IsEmpty] <=> nodes = <<>>)

\* ---- C11 ----
\* The inbound loop (`for msg := range b.sendTo`) has not exited.
C11_InLoop == pc["listen"] \in {"recv", "enq", "enqPulse"}

\* The step writes IsRunning = false.
C11_SetFalse ==
    /\ subjects # <<>> /\ subjects[IsRunning]
    /\ subjects' # <<>> /\ ~subjects'[IsRunning]

\* C11: IsRunning lifecycle. From Start on IsRunning is true in every state in
\* which the inbound loop has not exited; the one step that sets it to false
\* is taken by the inbound goroutine after its loop ended, when the inbound
\* channel is closed and every accepted value has been enqueued (without a
\* Reset every accepted value is in the queue or was delivered); once false
\* it never becomes true again.
C11_IsRunningLifecycle ==
    /\ []((subjects # <<>> /\ C11_InLoop) => subjects[IsRunning])
    /\ [][C11_SetFalse
            => /\ pc["listen"] = "setrun" /\ pc'["listen"] = "runPulse"
               /\ sendToClosed
               /\ (resets = 0
                     => 1..(next - 1) \subseteq Range(nodes) \cup Range(received))]_vars
    /\ [][(pc["listen"] = "setrun" /\ pc'["listen"] # "setrun") => C11_SetFalse]_vars
    /\ [][(subjects # <<>> /\ ~subjects[IsRunning])
            => (subjects' # <<>> /\ ~subjects'[IsRunning])]_vars

\* IsRunning was set to false after every message had been accepted and while
\* one of them was still queued.
C11_Witness ==
    /\ subjects # <<>> /\ ~subjects[IsRunning]
    /\ next - 1 = MaxSend
    /\ nodes # <<>>
    /\ starts >= 2

\* ---- helpers of the Locker properties ----

\* The step in which DoFunc of w leaves its wait loop and goes on to call f.
GoesToF(w) == lpc[w] # "f" /\ lpc'[w] = "f"

\* The step is the pulse of a ChangeValue call of c.
Pulses(c) == lpc[c] = "notify" /\ lpc'[c] # "notify"

\* The goroutines waiting in cond.Wait.
Waiting == {w \in Waiters : lpc[w] = "wait"}

\* ---- C12 ----
\* C12 as stated: DoFunc goes on to call f only in a state in which every
\* registered condition is true (with a false condition the caller stays
\* blocked).
C12_LockerConjunction ==
    [][\A w \in Waiters : GoesToF(w) => \A k \in DOMAIN subjects : subjects[k]]_vars

\* C12 amended: DoFunc goes on to call f only from its check under cond.L, with
\* a snapshot of every registered key in which at least one condition is
\* false; a check that read every condition as true puts the caller into
\* cond.Wait, and a caller in cond.Wait has not called f.
C12_LockerGate ==
    /\ [][\A w \in Waiters :
            GoesToF(w) => /\ lpc[w] = "hasFalse" /\ condL = w
                          /\ DOMAIN map_copy[w] = DOMAIN subjects
                          /\ \E k \in DOMAIN map_copy[w] : ~map_copy[w][k]]_vars
    /\ [][\A w \in Waiters :
            (/\ lpc[w] = "hasFalse" /\ toRead = {} /\ lpc'[w] # "hasFalse"
             /\ \A k \in DOMAIN map_copy[w] : map_copy[w][k])
               => lpc'[w] = "wait"]_vars
    /\ [](\A w \in Waiters : lpc[w] \in {"hasFalse", "wait", "woken"} => fCalls[w] = 0)

\* One goroutine was released with a false condition in its snapshot while
\* another one, whose check read both conditions as true, waits.
C12_Witness ==
    \E w1, w2 \in Waiters :
        /\ lpc[w1] = "f" /\ lpc[w2] = "wait"
        /\ DOMAIN subjects = Keys
        /\ \E k \in Keys : ~map_copy[w1][k]

\* ---- C13 ----
\* C13: Locker wake mode. The pulse of a ChangeValue on a key registered with
\* broadcast = true moves every goroutine that is in cond.Wait out of it; the
\* pulse of one on a key registered with broadcast = false moves exactly one
\* of them out (when one waits) and leaves the others waiting; a goroutine
\* leaves cond.Wait only by a pulse, and a woken goroutine can only lock
\* cond.L and run the check again (it reaches f only from that check).
C13_WakeMode ==
    /\ [][\A c \in Changers :
            (Pulses(c) /\ broadcast[ckey[c]])
               => \A w \in Waiting : lpc'[w] = "woken"]_vars
    /\ [][\A c \in Changers :
            (Pulses(c) /\ ~broadcast[ckey[c]] /\ Waiting # {})
               => \E w \in Waiting :
                     /\ lpc'[w] = "woken"
                     /\ \A x \in Waiting \ {w} : lpc'[x] = "wait"]_vars
    /\ [][\A w \in Waiters :
            (lpc[w] = "wait" /\ lpc'[w] # "wait")
               => (lpc'[w] = "woken" /\ \E c \in Changers : Pulses(c))]_vars
    /\ [][\A w \in Waiters :
            (lpc[w] = "woken" /\ lpc'[w] # "woken")
               => /\ lpc'[w] = "hasFalse" /\ condL = Nil /\ condL' = w
                  /\ map_copy'[w] = <<>> /\ toRead' = DOMAIN subjects]_vars
    /\ [][\A w \in Waiters : GoesToF(w) => lpc[w] = "hasFalse"]_vars

\* Both goroutines waited, and the one pulse made so far, a Signal (no key is
\* registered with broadcast = true), woke one of them.
C13_Witness ==
    \E w1, w2 \in Waiters :
        /\ lpc[w1] = "woken" /\ lpc[w2] = "wait"
        /\ cvCalls = 1 /\ \A c \in Changers : lpc[c] = "idle"
        /\ \A k \in DOMAIN broadcast : ~broadcast[k]

\* Both goroutines waited, and the one pulse made so far, a Broadcast, woke
\* both.
C13_WitnessBroadcast ==
    /\ \A w \in Waiters : lpc[w] = "woken"
    /\ cvCalls = 1 /\ \A c \in Changers : lpc[c] = "idle"

\* ---- C14 ----
\* The step in which the call of c leaves position `at`.
Leaves(c, at) == lpc[c] = at /\ lpc'[c] # at

\* No goroutine is taken out of cond.Wait.
NoPulse == \A w \in Waiters : lpc'[w] = lpc[w]

\* C14: unregistered key. ChangeValue and Get on a key that is not registered
\* return the key-not-found error, change no condition and wake nobody. On a
\* registered key ChangeValue writes the value (and no other key), then pulses
\* (every waiter, or one, is woken) and returns nil; Get returns nil and the
\* value the key holds, and the conditions change only by a ChangeValue
\* write (or a SetSubject), so that is the value last recorded.
C14_UnregisteredKey ==
    /\ [][\A c \in Changers :
            ((Leaves(c, "cvLookup") \/ Leaves(c, "getLookup"))
              /\ ckey[c] \notin DOMAIN subjects)
               => /\ cvErr' = ErrKeyNotExist /\ lpc'[c] = "idle"
                  /\ subjects' = subjects /\ NoPulse]_vars
    /\ [][\A c \in Changers :
            (Leaves(c, "cvLookup") /\ ckey[c] \in DOMAIN subjects)
               => (lpc'[c] = "set" /\ subjects' = subjects)]_vars
    /\ [][\A c \in Changers :
            Leaves(c, "set")
               => /\ lpc'[c] = "notify"
                  /\ DOMAIN subjects' = DOMAIN subjects
                  /\ \A k \in DOMAIN subjects :
                        subjects'[k] = IF k = ckey[c] THEN cval[c] ELSE subjects[k]]_vars
    /\ [][\A c \in Changers :
            Leaves(c, "notify")
               => /\ lpc'[c] = "idle" /\ cvErr' = Nil /\ subjects' = subjects
                  /\ (Waiting # {} => \E w \in Waiting : lpc'[w] = "woken")]_vars
    /\ [][\A c \in Changers :
            (Leaves(c, "getLookup") /\ ckey[c] \in DOMAIN subjects)
               => /\ cvErr' = Nil /\ getVal' = subjects[ckey[c]]
                  /\ subjects' = subjects /\ NoPulse]_vars
    /\ [][subjects' # subjects
            => \/ \E c \in Changers : Leaves(c, "set")
               \/ dfCalls + cvCalls = 0]_vars

\* A call on the unregistered key returned the error while both keys were
\* registered and a goroutine was waiting in DoFunc.
C14_Witness ==
    /\ cvErr = ErrKeyNotExist
    /\ DOMAIN subjects = Keys
    /\ \A c \in Changers : lpc[c] = "idle"
    /\ \E w \in Waiters : lpc[w] = "wait"

\* A ChangeValue(key, false) on a registered key whose value was true, and a
\* Get after it that returned false.
C14_WitnessRegistered ==
    /\ cvCalls = 2 /\ cvErr = Nil /\ ~getVal
    /\ \A c \in Changers : lpc[c] = "idle"
    /\ \E w \in Waiters : lpc[w] = "f"
    /\ \E w \in Waiters : lpc[w] = "woken"

\* ---- C15 ----
\* C15: DoFunc result propagation. A DoFunc call returns only after f has
\* returned, it has then called f exactly once (f is never called a second
\* time in one call, and after f returned the call can only return), and the
\* error it returns is the error f returned: nil, the stop sentinel or any
\* other error, unchanged.
C15_ResultPropagation ==
    /\ [][\A w \in Waiters :
            Leaves(w, "fret")
               => /\ lpc'[w] = "idle"
                  /\ fCalls[w] = 1
                  /\ dfErr' = fErr[w]]_vars
    /\ [][\A w \in Waiters :
            Leaves(w, "f") => (lpc'[w] = "fret" /\ fCalls'[w] = fCalls[w] + 1)]_vars
    /\ [][\A w \in Waiters :
            (lpc[w] # "idle" /\ lpc'[w] = "idle") => lpc[w] = "fret"]_vars
    /\ [](\A w \in Waiters : /\ fCalls[w] <= 1
                              /\ (lpc[w] = "fret" <=> fCalls[w] = 1))

\* Every DoFunc call has returned, one of them after a ChangeValue call, and
\* the last one returned the stop sentinel.
C15_Witness ==
    /\ dfErr = ErrStop
    /\ dfCalls = MaxDoFunc /\ cvCalls >= 1
    /\ \A w \in Waiters : lpc[w] = "idle"

\* The NotifyAll call of goroutine a returns in this step.
NotifyAllReturns(a) ==
    /\ a \in DOMAIN ag /\ ag[a].pc = "wait"
    /\ a \in DOMAIN ag' /\ ag'[a].pc \in {"idle", "done"}

\* C16: NotifyAll completeness. When a NotifyAll call returns, every observer
\* of its snapshot has had Notify called exactly once, by one closure, with the
\* state of the snapshot, and every closure has completed, whether or not
\* another observer failed; the result is nil exactly when no observer
\* returned an error, and otherwise it holds the error of every observer that
\* failed and nothing else.
C16_NotifyAllComplete ==
    [][\A a \in DOMAIN ag : NotifyAllReturns(a) =>
         LET n == ag[a].note
             obs == notes[n].obs
             errOf(i) == ag[<<n, i>>].err
         IN  /\ \A i \in DOMAIN obs :
                   /\ ag[<<n, i>>].pc = "done"
                   /\ ag[<<n, i>>].calls = 1
                   /\ ag[<<n, i>>].got = notes[n].state
                   /\ Cardinality({j \in DOMAIN obs : ag[<<n, j>>].who = i}) = 1
             /\ (ag'[a].err = {}) <=> (\A i \in DOMAIN obs : errOf(i) = {})
             /\ \A i \in DOMAIN obs :
                   {Tail(e) : e \in {x \in ag'[a].err : Head(x) = i}} = errOf(i)
             /\ \A e \in ag'[a].err : Head(e) \in DOMAIN obs]_vars

\* A client's NotifyAll is about to return: of its observers one has failed
\* and another has returned nil.
C16_Witness ==
    \E a \in Clients :
        /\ ag[a].pc = "wait"
        /\ LET n == ag[a].note
           IN  /\ \A i \in DOMAIN notes[n].obs : ag[<<n, i>>].pc = "done"
               /\ \E i, j \in DOMAIN notes[n].obs :
                     /\ ag[<<n, i>>].err # {} /\ ag[<<n, j>>].err = {}
                     /\ ag[<<n, j>>].calls = 1

\* The observers there can be at most: those attached, and one more for each
\* observer that has yet to attach another.
mostObservers ==
    Len(observers) + Cardinality({i \in DOMAIN observers : observers[i] = "attach"})

\* A bound on the steps left to the calls under way, with goroutines g,
\* snapshots ns and at most m observers. A call has its unlock, its snapshot
\* and its return ahead, and after the snapshot the steps of at most m
\* closures; a closure that is given 0 only returns, and the observers write
\* 0, so a closure that is given another value has the steps of one call
\* ahead at most, whose closures only return.
stepsLeft(g, ns, m) ==
    LET inner == 2 + m
        outer == 2 + m * (inner + 2)
        client(pcs) == Cardinality({a \in DOMAIN g \cap Clients : g[a].pc \in pcs})
        closure(pcs) == Cardinality({a \in DOMAIN g \ Clients : g[a].pc \in pcs})
        called == Cardinality({a \in DOMAIN g \ Clients :
                                 g[a].pc = "pending" /\ ns[a[1]].state # 0})
    IN  client({"lock"}) * (outer + 2) + client({"unlock"}) * (outer + 1)
        + client({"snap"}) * outer + client({"wait"})
        + closure({"unlock"}) * (inner + 1) + closure({"snap"}) * inner
        + closure({"wait", "pending"}) + called * (inner + 1)

\* A bound on the steps left in this state.
allStepsLeft == stepsLeft(ag, notes, mostObservers)

\* C17: notification runs without the Subject's lock. A goroutine that is in
\* NotifyAll, from its snapshot to the return of the last observer, does not
\* hold s.mu; while a call is under way some goroutine can take a step (no
\* deadlock), the Get, Set, Edit and Attach calls the observers make on the
\* same Subject included; and every such step brings the client's call nearer
\* to its return, so that the call and the callbacks in it complete.
C17_NotifyWithoutLock ==
    /\ [](\A a \in DOMAIN ag : ag[a].pc \in {"snap", "wait"} => smu # a)
    /\ []((\E a \in DOMAIN ag : ag[a].pc \notin {"idle", "done"})
            => ENABLED SubjectStep)
    /\ [][(\E c \in Clients : ag[c].pc # "idle")
            => allStepsLeft' < allStepsLeft]_vars

\* The observers of a client's call are being notified and one of them is in
\* a Set or Edit call of its own on the same Subject, holding s.mu.
C17_Witness ==
    \E c \in Clients :
        /\ ag[c].pc = "wait"
        /\ \E i \in DOMAIN notes[ag[c].note].obs :
              /\ smu = <<ag[c].note, i>>
              /\ ag[<<ag[c].note, i>>].pc = "unlock"

\* An observer has called Attach from its Notify, another Get, and the
\* client's call has returned.
C17_WitnessReturned ==
    /\ \A c \in Clients : ag[c].pc = "idle"
    /\ ops > 0
    /\ \E i, j \in DOMAIN observers :
          observers[i] = "attached" /\ observers[j] = "get"

\* C18: unconditional notification. A Set call, and an Edit call with a
\* function, goes from its write to NotifyAll whether or not the write changed
\* the state: after the unlock comes the snapshot, the snapshot holds the
\* state and all the observers attached at that moment and starts one closure
\* for each of them, and the call returns only from the wait for these closures.
C18_AlwaysNotifies ==
    [][\A a \in DOMAIN ag :
         /\ (ag[a].pc = "unlock" /\ ag'[a] # ag[a]) => ag'[a].pc = "snap"
         /\ (ag[a].pc = "snap" /\ ag'[a] # ag[a]) =>
               /\ ag'[a].pc = "wait"
               /\ ag'[a].note \notin DOMAIN notes
               /\ notes'[ag'[a].note] = [state |-> state, obs |-> observers]
               /\ \A i \in DOMAIN observers :
                     /\ <<ag'[a].note, i>> \notin DOMAIN ag
                     /\ ag'[<<ag'[a].note, i>>].pc = "pending"
         /\ (ag[a].pc \in {"lock", "unlock", "snap", "wait"}
               /\ ag'[a].pc \in {"idle", "done"}) => ag[a].pc = "wait"]_vars

\* An Edit call with a no-op mutator has left the state as it was and all the
\* observers have been notified, once each.
C18_Witness ==
    \E c \in Clients :
        /\ ag[c].pc = "wait" /\ ag[c].op = "edit" /\ ag[c].same
        /\ Len(notes[ag[c].note].obs) >= 2
        /\ \A i \in DOMAIN notes[ag[c].note].obs :
              /\ ag[<<ag[c].note, i>>].pc = "done"
              /\ ag[<<ag[c].note, i>>].calls = 1

\* A Set call with the current value: all the observers have been notified.
C18_WitnessSet ==
    \E c \in Clients :
        /\ ag[c].pc = "wait" /\ ag[c].op = "set" /\ ag[c].same
        /\ state # 0
        /\ Len(notes[ag[c].note].obs) >= 2
        /\ \A i \in DOMAIN notes[ag[c].note].obs :
              /\ ag[<<ag[c].note, i>>].pc = "done"
              /\ ag[<<ag[c].note, i>>].calls = 1

\* The call made in this step of the Queue specification is op.
Calls(op) == qops' = qops + 1 /\ qret'.op = op

\* C19: Queue structural invariant. After any sequence of Enqueue, Dequeue,
\* Peek, Size, Reset and ObserveSize, the nodes linked from front hold the
\* values enqueued and not yet removed, in order; front is nil exactly when
\* there is none; back is nil then and otherwise is the last node linked from
\* front, with no successor; and the size Subject's value, 0 when the Subject
\* is nil, is the number of nodes linked from front, as is what Size returns.
C19_QueueStructure ==
    LET linked == chain(heap, front)
        sizeValue == IF size = NoSubject THEN 0 ELSE size.state
    IN  /\ [i \in 1..Len(linked) |-> heap[linked[i]].value] = nodes
        /\ (front = NilNode) <=> (nodes = <<>>)
        /\ nodes = <<>> => back = NilNode
        /\ nodes # <<>> => /\ back = linked[Len(linked)]
                           /\ heap[back].next = NilNode
        /\ sizeValue = Len(linked)
        /\ qret.op = "Size" => qret.value = Len(linked)

\* A Dequeue has removed the front node of a queue that still holds two or
\* more, so that front and back are different nodes.
C19_Witness ==
    /\ qret.op = "Dequeue" /\ qret.err = Nil
    /\ Len(nodes) >= 2 /\ front # back

\* A Reset has emptied a queue that held elements and had a size observer.
C19_WitnessReset ==
    /\ qret.op = "Reset" /\ size = NoSubject /\ nodes = <<>>
    /\ sizeSent # <<>>

\* C20: empty-queue errors. Dequeue and Peek on a queue that holds no element
\* return the empty-queue error and change neither the nodes nor the size
\* Subject nor its observers, and no observer is notified; Peek on a queue that
\* holds elements returns the first of them and changes nothing, and that is
\* the element a Dequeue returns, also right after the Peek.
C20_EmptyQueueErrors ==
    [][/\ ((Calls("Dequeue") \/ Calls("Peek")) /\ nodes = <<>>) =>
            /\ qret'.err = ErrEmptyQueue
            /\ UNCHANGED <<front, back, heap, nodes, size, sizeSent>>
       /\ (Calls("Peek") /\ nodes # <<>>) =>
            /\ qret'.err = Nil /\ qret'.value = Head(nodes)
            /\ UNCHANGED <<front, back, heap, nodes, size, sizeSent>>
       /\ (Calls("Dequeue") /\ nodes # <<>>) =>
            /\ qret'.err = Nil /\ qret'.value = Head(nodes)
            /\ (qret.op = "Peek" => qret.err = Nil /\ qret'.value = qret.value)
            /\ nodes' = Tail(nodes)]_vars

\* Dequeue has failed on an empty queue whose size Subject has an observer.
C20_Witness ==
    /\ qret.op = "Dequeue" /\ qret.err = ErrEmptyQueue
    /\ size # NoSubject /\ size.observers > 0

\* Peek has returned the front element of a queue of two or more.
C20_WitnessPeek ==
    /\ qret.op = "Peek" /\ qret.err = Nil /\ Len(nodes) >= 2
    /\ nodes[1] # nodes[2]

\* ---- C21 ----
\* The outbound loop's sendSingleMessage removes the head of the queue in this
\* step.
OutRemoves == pc["out"] = "deq" /\ Len(nodes') < Len(nodes)

\* The select of sendSingleMessage takes its default case in this step.
OfferFails == pc["out"] = "offer" /\ pc'["out"] # "offer" /\ ~receiverReady

\* C21: peek-then-pop protocol. An item leaves the queue, other than by a
\* Reset, only in the Dequeue of a sendSingleMessage whose non-blocking send
\* has just succeeded, and the item removed is the item that was handed to the
\* receiver; a send that finds no receiver ready leaves the queue as it is.
C21_PeekThenPop ==
    [][/\ (Len(nodes') < Len(nodes) /\ resets' = resets) =>
            /\ OutRemoves
            /\ nodes' = Tail(nodes)
            /\ received # <<>> /\ received[Len(received)] = peeked
            /\ Head(nodes) = peeked
       /\ OfferFails => UNCHANGED queueVars]_vars

\* The same protocol in the runs in which Reset is never called.
C21_WithoutReset ==
    [][resets' = 0 =>
         /\ Len(nodes') < Len(nodes) =>
              /\ OutRemoves
              /\ nodes' = Tail(nodes)
              /\ received # <<>> /\ received[Len(received)] = peeked
              /\ Head(nodes) = peeked
         /\ (OfferFails /\ nodes # <<>>) => (nodes' = nodes /\ Head(nodes) = peeked)
         /\ (pc["out"] = "peek" /\ pc'["out"] = "offer") => peeked' = Head(nodes)]_vars

\* ---- C22 ----
\* The outbound loop's DoFunc makes its check in this step.
OutChecks == pc["out"] = "dofunc" /\ pc'["out"] # "dofunc"

\* The outbound loop leaves cond.Wait in this step.
OutWakes == pc["out"] = "wait" /\ pc'["out"] # "wait"

\* C22: outbound gating. A DoFunc check of the outbound loop made while the
\* Buffer is running and the queue is empty suspends the loop; the suspended
\* loop takes no step of its own and is woken only by the pulse of an Enqueue
\* or of the write of IsRunning = false; and it is not left suspended once an
\* item is in the queue or IsRunning is false and the pulse of that change is
\* done.
C22_OutboundGating ==
    /\ [][(OutChecks /\ subjects[IsRunning] /\ nodes = <<>>) =>
            pc'["out"] = "wait"]_vars
    /\ [][OutWakes =>
            /\ pc["listen"] \in {"enqPulse", "runPulse"}
            /\ pc'["listen"] # pc["listen"]
            /\ pc'["out"] = "dofunc"
            /\ (nodes # <<>> \/ ~subjects[IsRunning])]_vars
    /\ [][pc["out"] = "wait" => UNCHANGED <<peeked, mapCopy, phase, received>>]_vars
    /\ []((pc["out"] = "wait" /\ pc["listen"] \notin {"enqPulse", "runPulse"})
            => (subjects[IsRunning] /\ nodes = <<>>))

\* The gate in the runs in which Reset is never called.
C22_WithoutReset ==
    /\ [][(resets' = 0 /\ OutChecks /\ subjects[IsRunning] /\ nodes = <<>>) =>
            pc'["out"] = "wait"]_vars
    /\ [][(resets' = 0 /\ OutWakes) =>
            /\ pc["listen"] \in {"enqPulse", "runPulse"}
            /\ pc'["listen"] # pc["listen"]
            /\ pc'["out"] = "dofunc"
            /\ (nodes # <<>> \/ ~subjects[IsRunning])]_vars
    /\ [][(resets' = 0 /\ pc["out"] = "wait") =>
            UNCHANGED <<peeked, mapCopy, phase, received>>]_vars
    /\ []((resets = 0 /\ pc["out"] = "wait"
             /\ pc["listen"] \notin {"enqPulse", "runPulse"})
            => (subjects[IsRunning] /\ nodes = <<>>))

\* ---- C23 ----
\* The running phase has abandoned a pass: its last handoff attempt found no
\* receiver, the item it peeked is still the head of the queue, and the loop is
\* on its way to, or at, the next DoFunc check.
Abandoned ==
    /\ phase = "run" /\ pc["out"] \in {"fnReturn", "get", "dofunc"}
    /\ nodes # <<>> /\ Head(nodes) = peeked
    /\ peeked \notin Range(received)

\* C23 as claimed: after an abandoned pass the outbound loop makes its next
\* handoff attempt only after a Locker condition has changed, that is, a DoFunc
\* check that finds the conditions as they were in the snapshot of the
\* abandoned pass suspends the loop.
C23_AbandonedWaits ==
    [][(OutChecks /\ Abandoned /\ subjects = mapCopy) => pc'["out"] = "wait"]_vars

\* C23 as amended: a handoff that finds no receiver in the running phase ends
\* the pass and leaves the queue and the conditions as they are; fn returns nil
\* when its snapshot says running and the loop comes round to DoFunc; and a
\* DoFunc check made while the item is still the head does not suspend the
\* loop, whether or not a condition has changed: it takes a new snapshot and
\* goes on to the next attempt.
C23_AbandonedRetries ==
    /\ [][(OfferFails /\ phase = "run") =>
            /\ pc'["out"] = "fnReturn"
            /\ UNCHANGED <<queueVars, subjects, phase>>]_vars
    /\ [][(pc["out"] = "fnReturn" /\ pc'["out"] # "fnReturn" /\ mapCopy[IsRunning])
            => (pc'["out"] = "get" /\ phase' = "run")]_vars
    /\ [][(OutChecks /\ Abandoned) =>
            /\ ~subjects[IsEmpty]
            /\ pc'["out"] = "peek" /\ mapCopy' = subjects
            /\ UNCHANGED <<queueVars, subjects>>]_vars

\* A pass was abandoned (the item peeked is still the head and was handed to
\* nobody) and the loop stands at DoFunc's check with every condition as it was
\* in the snapshot of that pass.
C23_Witness ==
    /\ Abandoned /\ pc["out"] = "dofunc"
    /\ subjects = mapCopy /\ subjects[IsRunning]
    /\ ~receiverReady

\* ---- C24 ----
\* C24: the outbound loop leaves its running phase only on a false IsRunning,
\* read by Get or found in the snapshot handed to fn (which then returns
\* ErrStop); once in the drain phase it stays there; it reaches the teardown
\* only with an empty queue, and the queue is still empty when it is done; when
\* it is done b.locker and b.q are nil.
C24_OutboundShutdown ==
    /\ [][(phase = "run" /\ phase' = "drain") =>
            \/ /\ pc["out"] = "get"
               /\ ~Get(subjects, IsRunning).val
            \/ /\ pc["out"] = "fnReturn"
               /\ ~mapCopy[IsRunning] /\ fnResult(mapCopy) = ErrStop]_vars
    /\ [][phase = "drain" => phase' = "drain"]_vars
    /\ [][(pc["out"] # "teardown" /\ pc'["out"] = "teardown") =>
            (phase = "drain" /\ nodes = <<>>)]_vars
    /\ [](pc["out"] \in {"teardown", "done"} => nodes = <<>>)
    /\ [](pc["out"] = "done" => (locker = Nil /\ q = Nil))

\* The loop is done after a drain phase that handed an item over.
C24_Witness ==
    /\ pc["out"] = "done" /\ phase = "drain"
    /\ received # <<>> /\ locker = Nil /\ q = Nil

\* The loop is done after it left the running phase through ErrStop.
C24_WitnessErrStop ==
    /\ pc["out"] = "done" /\ mapCopy # <<>> /\ ~mapCopy[IsRunning]

\* ---- C25 ----
\* The item v is at the head of the queue and the consumer is blocked in
\* Receive on the outbound channel, after r Reset calls.
HeadAwaited(v, r) ==
    /\ ~crashed /\ resets = r
    /\ nodes # <<>> /\ Head(nodes) = v
    /\ pc["cons"] = "rwait" /\ recvCh = "chan"

\* C25: under fair scheduling, when the queue holds an item and a consumer is
\* blocked in Receive, the item at the head is eventually returned by Receive,
\* unless a later Reset call or a panic of the process comes first.
C25_EventualDelivery ==
    \A v \in 1..MaxSend, r \in 0..MaxReset :
        HeadAwaited(v, r) ~> (v \in Range(received) \/ resets # r \/ crashed)

\* The same in the runs in which Reset is never called.
C25_WithoutReset ==
    \A v \in 1..MaxSend :
        HeadAwaited(v, 0) ~> (v \in Range(received) \/ resets # 0 \/ crashed)

\* ---- C26 ----
\* Both loops have ended.
LoopsDone == pc["listen"] = "done" /\ pc["out"] = "done"

C27_PointInTimeSnapshot ==
    \A w \in Waiters :
        lpc[w] = "f" =>
            /\ DOMAIN map_copy[w] = DOMAIN subjects
            /\ map_copy[w] \in held[w]

\* ---- C28 ----
\* The goroutine is inside DoFunc and has not been let through to f.
InDoFunc(w) == lpc[w] \in {"hasFalse", "wait", "woken"}

\* DoFunc's release predicate holds of the conditions as they are.
Released == hasFalse(subjects)

\* C28 as claimed: under fair scheduling a goroutine inside DoFunc calls f if
\* the release predicate keeps holding, whatever the wake mode of the keys.
C28_NoMissedWakeup ==
    \A w \in Waiters : InDoFunc(w) ~> (lpc[w] = "f" \/ ~Released)

\* Every registered key pulses with Broadcast.
AllBroadcast == \A k \in DOMAIN broadcast : broadcast[k]

\* C28 as amended: the same when every key is registered with broadcast = true;
\* and in every case the check and the read of the conditions are made by the
\* holder of cond.L, a goroutine enters the wait in the step that gives cond.L
\* up, and a pulse is issued with cond.L free of checkers, after the write, so
\* every goroutine whose check missed the write is in the wait list when the
\* pulse comes; a Broadcast pulse wakes every waiting goroutine, so with
\* Broadcast keys only, while a goroutine waits with the release predicate
\* holding, a pulse is still to come.
C28_NoMissedBroadcast ==
    /\ \A w \in Waiters :
          (InDoFunc(w) /\ AllBroadcast) ~> (lpc[w] = "f" \/ ~Released)
    /\ [](\A w \in Waiters : lpc[w] = "hasFalse" => condL = w)
    /\ [](\A w \in Waiters :
            (lpc[w] = "wait" /\ Released /\ AllBroadcast)
                => \E c \in Changers : lpc[c] = "notify")
    /\ [][\A c \in Changers :
            (Pulses(c) /\ broadcast[ckey[c]]) =>
                \A w \in Waiting : lpc'[w] = "woken"]_vars
    /\ [][\A w \in Waiters :
            (lpc[w] = "hasFalse" /\ lpc'[w] = "wait") =>
                (condL = w /\ condL' = Nil /\ ~hasFalse(map_copy[w]))]_vars
    /\ [][\A c \in Changers :
            Pulses(c) =>
                /\ condL = Nil /\ \A w \in Waiters : lpc[w] # "hasFalse"
                /\ lpc[c] = "notify"]_vars
    /\ [][\A c \in Changers :
            (lpc[c] # "notify" /\ lpc'[c] = "notify") =>
                (lpc[c] = "set" /\ subjects'[ckey[c]] = cval[c])]_vars

\* A goroutine whose check read every condition as true while the write of a
\* false value landed before it entered the wait: it waits with the release
\* predicate holding and the pulse still to come.
C28_Witness ==
    \E w \in Waiters, c \in Changers :
        /\ lpc[w] = "wait" /\ Released /\ AllBroadcast
        /\ lpc[c] = "notify" /\ ~cval[c]
        /\ cvCalls = 1

\* ---- C29 ----
\* C29: no value is returned by Receive twice (the producer sends the distinct
\* values 1, 2, ...), every value returned was accepted by a Send, and Receive
\* has returned no more values than Send calls were accepted, in every
\* interleaving with Reset, Close and a second Start.
C29_NoDuplication ==
    /\ \A i, j \in 1..Len(received) : received[i] = received[j] => i = j
    /\ \A i \in 1..Len(received) : received[i] \in 1..(next - 1)
    /\ Len(received) <= next - 1

\* Every message was delivered in a run with a Reset call, and Close has
\* returned.
C29_Witness ==
    /\ Len(received) = MaxSend /\ MaxSend >= 2
    /\ resets > 0 /\ closes > 0

\* An item was handed to the consumer while Reset emptied the queue: it was
\* delivered and discarded, and is not delivered again.
C29_WitnessDropped ==
    /\ Range(received) \cap dropped # {}
    /\ pc["out"] = "done"

\* ---- C30 ----
\* C30: no item whose Send call began after a Reset call had returned is
\* removed from the queue by a Dequeue that follows the handoff of another
\* item, whatever the interleaving of Reset with the outbound loop's Peek,
\* channel send and Dequeue.
C30_ResetKeepsLaterItems == lost \cap afterReset = {}

\* ---- the locks of a started Buffer ----

\* Everything but the lock-order specification.
outsideLocks == <<bufVars, chanVars, subjects, queueVars, pc, localVars, histVars,
                  lockerVars, lockerHist, subjectVars, linkedVars, writerVars>>

\* The mu of the Subject the Locker keeps under key.
SubjectMu(key) == IF key = IsEmpty THEN "isEmpty.mu" ELSE "isRunning.mu"

\* The locks g holds, locked or read-locked. A goroutine that waits in
\* NotifyAll's wg.Wait for the observers it spawned is followed into them:
\* the locks it holds are held for as long as they run.
LkHeld(g) == {l \in Locks : lkW[l] = g \/ g \in lkR[l]}

\* The positions at which a goroutine calls Lock, and those at which it calls
\* RLock.
LockPos == {"enqueue.Lock", "dequeue.Lock", "reset.Lock", "edit.Lock", "cv.Lock",
            "set.Lock", "pulse.Lock", "doFunc.Lock", "wake.Lock"}
RLockPos == {"peek.RLock", "sizeNotify.RLock", "get.RLock", "hasFalse.RLock",
             "notify.RLock", "mustGet.RLock", "hasFalse.MustGet"}

\* The lock g asks for at its position.
LkWants(g) ==
    CASE gpc[g] \in {"enqueue.Lock", "dequeue.Lock", "reset.Lock", "peek.RLock"}
           -> "queue.mu"
      [] gpc[g] \in {"edit.Lock", "sizeNotify.RLock"} -> "size.mu"
      [] gpc[g] \in {"cv.Lock", "get.RLock", "hasFalse.RLock"} -> "l.mu"
      [] gpc[g] \in {"set.Lock", "notify.RLock"} -> SubjectMu(ctx[g].key)
      [] gpc[g] = "mustGet.RLock" -> "isRunning.mu"
      [] gpc[g] = "hasFalse.MustGet" -> SubjectMu(lko.key)
      [] gpc[g] \in {"pulse.Lock", "doFunc.Lock", "wake.Lock"} -> "cond.L"
      [] OTHER -> Nil

LkGoto(g, to) == gpc' = [gpc EXCEPT ![g] = to]

\* l is asked for while the locks g holds are held.
LkAsked(g, l) == lkOrder' = lkOrder \cup {<<h, l>> : h \in LkHeld(g)}

\* What l holds for its holder while g, having called Lock, waits for the
\* readers to leave.
LkPending(g) ==
    CASE g = "listen" -> "listen waits"
      [] g = "out" -> "out waits"
      [] OTHER -> "reset waits"

\* sync.RWMutex.Lock (sync.Mutex.Lock when nobody read-locks l): the writer
\* first shuts out the other writers and the readers to come, then waits for
\* the readers that hold l to leave, and only then goes on with Then.
LkLock(g, l, Then) ==
    /\ LkWants(g) = l
    /\ \/ lkW[l] = Nil
       \/ lkW[l] = LkPending(g) /\ lkR[l] = {}
    /\ LkAsked(g, l)
    /\ UNCHANGED lkR
    /\ IF lkR[l] # {}
         THEN /\ lkW' = [lkW EXCEPT ![l] = LkPending(g)]
              /\ UNCHANGED <<gpc, lkq, lkc, lko, ctx, lkenv>>
         ELSE /\ lkW' = [lkW EXCEPT ![l] = g]
              /\ Then

\* sync.RWMutex.RLock: granted unless a writer holds l or waits for it.
LkRLock(g, l) ==
    /\ LkWants(g) = l
    /\ lkW[l] = Nil
    /\ lkR' = [lkR EXCEPT ![l] = @ \cup {g}]
    /\ LkAsked(g, l)
    /\ UNCHANGED lkW

LkUnlock(g, l) ==
    /\ lkW[l] = g
    /\ lkW' = [lkW EXCEPT ![l] = Nil]
    /\ UNCHANGED <<lkR, lkOrder>>

LkRUnlock(g, l) ==
    /\ g \in lkR[l]
    /\ lkR' = [lkR EXCEPT ![l] = @ \ {g}]
    /\ UNCHANGED <<lkW, lkOrder>>

\* Start has returned: both conditions true with their observers, an empty
\* queue whose size is observed, the two loops spawned; Reset may be called.
InitLocks ==
    /\ q = Nil /\ sendTo = Nil /\ receiveFrom = Nil /\ wg = 0 /\ locker = Nil
    /\ sendToClosed = FALSE /\ receiveFromClosed = FALSE
    /\ subjects = <<>>
    /\ nodes = <<>> /\ size = NoSubject /\ mu = Nil
    /\ pc = [p \in Procs |-> "idle"]
    /\ msg = 0 /\ peeked = 0 /\ mapCopy = <<>> /\ phase = "run"
    /\ next = 1 /\ sendCh = Nil /\ recvCh = Nil
    /\ crashed = FALSE /\ sendErr = Nil /\ recvErr = Nil /\ received = <<>>
    /\ starts = 0 /\ spawned = 0 /\ closes = 0 /\ resets = 0
    /\ acceptedAtClose = -1 /\ dropped = {} /\ lost = {} /\ afterReset = {}
    /\ LockerIdle
    /\ SubjectIdle
    /\ QueueIdle
    /\ WritersIdle
    /\ lkW = [l \in Locks |-> Nil] /\ lkR = [l \in Locks |-> {}]
    /\ lkOrder = {}
    /\ gpc = [g \in LkG |-> CASE g = "listen" -> "recv"
                              [] g = "out" -> "get.RLock"
                              [] OTHER -> "idle"]
    /\ lkq = [items |-> 0, observed |-> TRUE]
    /\ lkc = [k \in Keys |-> TRUE]
    /\ lko = NoLocals
    /\ ctx = [g \in LkG |-> NoCtx]
    /\ lkenv = [taken |-> 0, closed |-> FALSE, resets |-> 0, qnil |-> FALSE]

\* -- the inbound loop --

\* Send: the loop's range takes a message from sendTo.
LkSend ==
    /\ gpc["listen"] = "recv"
    /\ ~lkenv.closed /\ lkenv.taken < MaxSend
    /\ lkenv' = [lkenv EXCEPT !.taken = @ + 1]
    /\ LkGoto("listen", "enqueue.Lock")
    /\ UNCHANGED <<lkW, lkR, lkOrder, lkq, lkc, lko, ctx>>
    /\ UNCHANGED outsideLocks

\* Close: close(b.sendTo).
LkClose ==
    /\ ~lkenv.closed
    /\ lkenv' = [lkenv EXCEPT !.closed = TRUE]
    /\ UNCHANGED <<lkW, lkR, lkOrder, gpc, lkq, lkc, lko, ctx>>
    /\ UNCHANGED outsideLocks

\* The range ends on the closed channel: ChangeValue(IsRunning, false).
LkRangeEnd ==
    /\ gpc["listen"] = "recv"
    /\ lkenv.closed
    /\ ctx' = [ctx EXCEPT !["listen"] =
                 [key |-> IsRunning, val |-> FALSE, ret |-> "done", after |-> "none"]]
    /\ LkGoto("listen", "cv.Lock")
    /\ UNCHANGED <<lkW, lkR, lkOrder, lkq, lkc, lko, lkenv>>
    /\ UNCHANGED outsideLocks

\* Queue.Enqueue: queue.mu.Lock, the node is linked, then size.Edit.
LkEnqueueLock ==
    /\ gpc["listen"] = "enqueue.Lock"
    /\ LkLock("listen", "queue.mu",
              /\ lkq' = [lkq EXCEPT !.items = @ + 1]
              /\ ctx' = [ctx EXCEPT !["listen"].ret = "queue.Unlock",
                                    !["listen"].after = "recv"]
              /\ LkGoto("listen", "edit.Lock")
              /\ UNCHANGED <<lkc, lko, lkenv>>)
    /\ UNCHANGED outsideLocks

\* -- Subject.Edit and NotifyAll on the size, inside Enqueue and Dequeue --

\* size.Edit: s.mu.Lock.
LkEditLock(g) ==
    /\ gpc[g] = "edit.Lock"
    /\ LkLock(g, "size.mu",
              /\ LkGoto(g, "edit.Unlock")
              /\ UNCHANGED <<lkq, lkc, lko, ctx, lkenv>>)
    /\ UNCHANGED outsideLocks

\* size.Edit: s.mu.Unlock, then NotifyAll.
LkEditUnlock(g) ==
    /\ gpc[g] = "edit.Unlock"
    /\ LkUnlock(g, "size.mu")
    /\ LkGoto(g, "sizeNotify.RLock")
    /\ UNCHANGED <<lkq, lkc, lko, ctx, lkenv>>
    /\ UNCHANGED outsideLocks

\* NotifyAll of the size: s.mu.RLock, state and observers are copied.
LkSizeNotifyRLock(g) ==
    /\ gpc[g] = "sizeNotify.RLock"
    /\ LkRLock(g, "size.mu")
    /\ ctx' = [ctx EXCEPT ![g].key = IsEmpty, ![g].val = (lkq.items = 0)]
    /\ LkGoto(g, "sizeNotify.RUnlock")
    /\ UNCHANGED <<lkq, lkc, lko, lkenv>>
    /\ UNCHANGED outsideLocks

\* NotifyAll of the size: s.mu.RUnlock; the observer Start attached, if the
\* size still has it, runs ChangeValue(IsEmpty, val == 0) and is waited for.
LkSizeNotifyRUnlock(g) ==
    /\ gpc[g] = "sizeNotify.RUnlock"
    /\ LkRUnlock(g, "size.mu")
    /\ LkGoto(g, IF lkq.observed THEN "cv.Lock" ELSE "queue.Unlock")
    /\ UNCHANGED <<lkq, lkc, lko, ctx, lkenv>>
    /\ UNCHANGED outsideLocks

\* -- Locker.ChangeValue, Subject.Set and the Locker's observer --

\* ChangeValue: l.mu.Lock, the subject is looked up.
LkCvLock(g) ==
    /\ gpc[g] = "cv.Lock"
    /\ LkLock(g, "l.mu",
              /\ LkGoto(g, "cv.Unlock")
              /\ UNCHANGED <<lkq, lkc, lko, ctx, lkenv>>)
    /\ UNCHANGED outsideLocks

\* ChangeValue: l.mu.Unlock, then subject.Set(value).
LkCvUnlock(g) ==
    /\ gpc[g] = "cv.Unlock"
    /\ LkUnlock(g, "l.mu")
    /\ LkGoto(g, "set.Lock")
    /\ UNCHANGED <<lkq, lkc, lko, ctx, lkenv>>
    /\ UNCHANGED outsideLocks

\* Set: s.mu.Lock, s.state = state.
LkSetLock(g) ==
    /\ gpc[g] = "set.Lock"
    /\ LkLock(g, SubjectMu(ctx[g].key),
              /\ lkc' = [lkc EXCEPT ![ctx[g].key] = ctx[g].val]
              /\ LkGoto(g, "set.Unlock")
              /\ UNCHANGED <<lkq, lko, ctx, lkenv>>)
    /\ UNCHANGED outsideLocks

\* Set: s.mu.Unlock, then NotifyAll.
LkSetUnlock(g) ==
    /\ gpc[g] = "set.Unlock"
    /\ LkUnlock(g, SubjectMu(ctx[g].key))
    /\ LkGoto(g, "notify.RLock")
    /\ UNCHANGED <<lkq, lkc, lko, ctx, lkenv>>
    /\ UNCHANGED outsideLocks

\* NotifyAll of the condition: s.mu.RLock.
LkNotifyRLock(g) ==
    /\ gpc[g] = "notify.RLock"
    /\ LkRLock(g, SubjectMu(ctx[g].key))
    /\ LkGoto(g, "notify.RUnlock")
    /\ UNCHANGED <<lkq, lkc, lko, ctx, lkenv>>
    /\ UNCHANGED outsideLocks

\* NotifyAll of the condition: s.mu.RUnlock; the observer SetSubject attached
\* runs and is waited for.
LkNotifyRUnlock(g) ==
    /\ gpc[g] = "notify.RUnlock"
    /\ LkRUnlock(g, SubjectMu(ctx[g].key))
    /\ LkGoto(g, "pulse.Lock")
    /\ UNCHANGED <<lkq, lkc, lko, ctx, lkenv>>
    /\ UNCHANGED outsideLocks

\* The observer of SetSubject: l.cond.L.Lock.
LkPulseLock(g) ==
    /\ gpc[g] = "pulse.Lock"
    /\ LkLock(g, "cond.L",
              /\ LkGoto(g, "pulse.Unlock")
              /\ UNCHANGED <<lkq, lkc, lko, ctx, lkenv>>)
    /\ UNCHANGED outsideLocks

\* The observer of SetSubject: l.cond.Broadcast wakes the outbound loop if it
\* waits, and the deferred l.cond.L.Unlock; ChangeValue returns.
LkPulseUnlock(g) ==
    /\ gpc[g] = "pulse.Unlock"
    /\ LkUnlock(g, "cond.L")
    /\ gpc' = [h \in LkG |->
                 IF h = g THEN ctx[g].ret
                 ELSE IF gpc[h] = "wait" THEN "wake.Lock" ELSE gpc[h]]
    /\ UNCHANGED <<lkq, lkc, lko, ctx, lkenv>>
    /\ UNCHANGED outsideLocks

\* The deferred queue.mu.Unlock of Enqueue, Dequeue and Reset.
LkQueueUnlock(g) ==
    /\ gpc[g] = "queue.Unlock"
    /\ LkUnlock(g, "queue.mu")
    /\ LkGoto(g, ctx[g].after)
    /\ ctx' = [ctx EXCEPT ![g] = NoCtx]
    /\ UNCHANGED <<lkq, lkc, lko, lkenv>>
    /\ UNCHANGED outsideLocks

\* -- Reset --

\* Buffer.Reset is called: b.q is not nil, so Queue.Reset runs.
LkResetCall ==
    /\ gpc["reset"] = "idle"
    /\ lkenv.resets < MaxReset
    /\ ~lkenv.qnil
    /\ lkenv' = [lkenv EXCEPT !.resets = @ + 1]
    /\ LkGoto("reset", "reset.Lock")
    /\ UNCHANGED <<lkW, lkR, lkOrder, lkq, lkc, lko, ctx>>
    /\ UNCHANGED outsideLocks

\* Queue.Reset: queue.mu.Lock; a non-empty queue loses its nodes and its
\* size Subject.
LkResetLock ==
    /\ gpc["reset"] = "reset.Lock"
    /\ LkLock("reset", "queue.mu",
              /\ lkq' = IF lkq.items = 0 THEN lkq
                        ELSE [items |-> 0, observed |-> FALSE]
              /\ ctx' = [ctx EXCEPT !["reset"].after = "idle"]
              /\ LkGoto("reset", "queue.Unlock")
              /\ UNCHANGED <<lkc, lko, lkenv>>)
    /\ UNCHANGED outsideLocks

\* -- the outbound loop --

\* Locker.Get(IsRunning): l.mu.RLock, the subject is looked up.
LkGetRLock ==
    /\ gpc["out"] = "get.RLock"
    /\ LkRLock("out", "l.mu")
    /\ LkGoto("out", "get.RUnlock")
    /\ UNCHANGED <<lkq, lkc, lko, ctx, lkenv>>
    /\ UNCHANGED outsideLocks

\* Locker.Get: l.mu.RUnlock, then val.MustGet().
LkGetRUnlock ==
    /\ gpc["out"] = "get.RUnlock"
    /\ LkRUnlock("out", "l.mu")
    /\ LkGoto("out", "mustGet.RLock")
    /\ UNCHANGED <<lkq, lkc, lko, ctx, lkenv>>
    /\ UNCHANGED outsideLocks

\* MustGet of IsRunning: s.mu.RLock.
LkMustGetRLock ==
    /\ gpc["out"] = "mustGet.RLock"
    /\ LkRLock("out", "isRunning.mu")
    /\ LkGoto("out", "mustGet.RUnlock")
    /\ UNCHANGED <<lkq, lkc, lko, ctx, lkenv>>
    /\ UNCHANGED outsideLocks

\* MustGet of IsRunning: the deferred s.mu.RUnlock; the loop calls DoFunc if
\* the value is true and breaks to its second loop if not.
LkMustGetRUnlock ==
    /\ gpc["out"] = "mustGet.RUnlock"
    /\ LkRUnlock("out", "isRunning.mu")
    /\ IF lkc[IsRunning]
         THEN LkGoto("out", "doFunc.Lock") /\ UNCHANGED lko
         ELSE LkGoto("out", "peek.RLock") /\ lko' = [lko EXCEPT !.phase = "drain"]
    /\ UNCHANGED <<lkq, lkc, ctx, lkenv>>
    /\ UNCHANGED outsideLocks

\* DoFunc: l.cond.L.Lock.
LkDoFuncLock ==
    /\ gpc["out"] = "doFunc.Lock"
    /\ LkLock("out", "cond.L",
              /\ LkGoto("out", "hasFalse.RLock")
              /\ UNCHANGED <<lkq, lkc, lko, ctx, lkenv>>)
    /\ UNCHANGED outsideLocks

\* hasFalse: l.mu.RLock; the range over l.subjects starts at either key.
LkHasFalseRLock ==
    /\ gpc["out"] = "hasFalse.RLock"
    /\ LkRLock("out", "l.mu")
    /\ \E k \in Keys :
         lko' = [lko EXCEPT !.map_copy = <<>>, !.left = Keys \ {k}, !.key = k]
    /\ LkGoto("out", "hasFalse.MustGet")
    /\ UNCHANGED <<lkq, lkc, ctx, lkenv>>
    /\ UNCHANGED outsideLocks

\* hasFalse: value.MustGet() takes the Subject's s.mu.RLock under l.mu.
LkHasFalseMustGet ==
    /\ gpc["out"] = "hasFalse.MustGet"
    /\ LkRLock("out", SubjectMu(lko.key))
    /\ LkGoto("out", "hasFalse.MustGot")
    /\ UNCHANGED <<lkq, lkc, lko, ctx, lkenv>>
    /\ UNCHANGED outsideLocks

\* hasFalse: MustGet's deferred s.mu.RUnlock; map_copy[key] is the value read.
LkHasFalseMustGot ==
    /\ gpc["out"] = "hasFalse.MustGot"
    /\ LkRUnlock("out", SubjectMu(lko.key))
    /\ LET read == [k \in DOMAIN lko.map_copy \cup {lko.key} |->
                      IF k = lko.key THEN lkc[k] ELSE lko.map_copy[k]]
       IN  IF lko.left = {}
             THEN /\ lko' = [lko EXCEPT !.map_copy = read]
                  /\ LkGoto("out", "hasFalse.RUnlock")
             ELSE /\ \E k \in lko.left :
                       lko' = [lko EXCEPT !.map_copy = read, !.left = @ \ {k},
                                          !.key = k]
                  /\ LkGoto("out", "hasFalse.MustGet")
    /\ UNCHANGED <<lkq, lkc, ctx, lkenv>>
    /\ UNCHANGED outsideLocks

\* hasFalse: l.mu.RUnlock.
LkHasFalseRUnlock ==
    /\ gpc["out"] = "hasFalse.RUnlock"
    /\ LkRUnlock("out", "l.mu")
    /\ LkGoto("out", "doFunc.Check")
    /\ UNCHANGED <<lkq, lkc, lko, ctx, lkenv>>
    /\ UNCHANGED outsideLocks

\* The holder of cond.L when DoFunc calls f: it calls l.cond.L.Unlock before
\* it breaks out of its loop.
doFuncKeepsLock(g) == g
doFuncUnlock(g) == Nil

\* DoFunc: a condition is false, l.cond.L.Unlock and f(map_copy).
LkDoFuncProceed ==
    /\ gpc["out"] = "doFunc.Check"
    /\ \E k \in Keys : ~lko.map_copy[k]
    /\ lkW["cond.L"] = "out"
    /\ lkW' = [lkW EXCEPT !["cond.L"] = doFuncUnlock("out")]
    /\ LkGoto("out", "peek.RLock")
    /\ UNCHANGED <<lkR, lkOrder, lkq, lkc, lko, ctx, lkenv>>
    /\ UNCHANGED outsideLocks

\* DoFunc: every condition is true, l.cond.Wait() unlocks cond.L and parks.
LkDoFuncWait ==
    /\ gpc["out"] = "doFunc.Check"
    /\ \A k \in Keys : lko.map_copy[k]
    /\ LkUnlock("out", "cond.L")
    /\ LkGoto("out", "wait")
    /\ UNCHANGED <<lkq, lkc, lko, ctx, lkenv>>
    /\ UNCHANGED outsideLocks

\* l.cond.Wait() of a woken goroutine: l.cond.L.Lock, then hasFalse again.
LkWakeLock ==
    /\ gpc["out"] = "wake.Lock"
    /\ LkLock("out", "cond.L",
              /\ LkGoto("out", "hasFalse.RLock")
              /\ UNCHANGED <<lkq, lkc, lko, ctx, lkenv>>)
    /\ UNCHANGED outsideLocks

\* Where the outbound loop goes when sendSingleMessage says the queue is empty
\* (in f: the inner loop breaks and f returns; in the second loop: it breaks).
LkAfterEmpty == IF lko.phase = "run" THEN "fn.Return" ELSE "teardown"

\* sendSingleMessage: Queue.Peek takes queue.mu.RLock.
LkPeekRLock ==
    /\ gpc["out"] = "peek.RLock"
    /\ LkRLock("out", "queue.mu")
    /\ LkGoto("out", "peek.RUnlock")
    /\ UNCHANGED <<lkq, lkc, lko, ctx, lkenv>>
    /\ UNCHANGED outsideLocks

\* Queue.Peek: the deferred queue.mu.RUnlock; ErrEmptyQueue on an empty queue.
LkPeekRUnlock ==
    /\ gpc["out"] = "peek.RUnlock"
    /\ LkRUnlock("out", "queue.mu")
    /\ LkGoto("out", IF lkq.items = 0 THEN LkAfterEmpty ELSE "offer")
    /\ UNCHANGED <<lkq, lkc, lko, ctx, lkenv>>
    /\ UNCHANGED outsideLocks

\* sendSingleMessage: the select; Receive takes the message or the default
\* case runs (f returns; the second loop tries again).
LkOffer ==
    /\ gpc["out"] = "offer"
    /\ \E ready \in BOOLEAN :
         LkGoto("out", IF ready THEN "dequeue.Lock"
                       ELSE IF lko.phase = "run" THEN "fn.Return"
                       ELSE "peek.RLock")
    /\ UNCHANGED <<lkW, lkR, lkOrder, lkq, lkc, lko, ctx, lkenv>>
    /\ UNCHANGED outsideLocks

\* Queue.Dequeue: queue.mu.Lock; ErrEmptyQueue on an empty queue, else the
\* front is unlinked, then size.Edit.
LkDequeueLock ==
    /\ gpc["out"] = "dequeue.Lock"
    /\ LkLock("out", "queue.mu",
              IF lkq.items = 0
                THEN /\ ctx' = [ctx EXCEPT !["out"].after = LkAfterEmpty]
                     /\ LkGoto("out", "queue.Unlock")
                     /\ UNCHANGED <<lkq, lkc, lko, lkenv>>
                ELSE /\ lkq' = [lkq EXCEPT !.items = @ - 1]
                     /\ ctx' = [ctx EXCEPT !["out"].ret = "queue.Unlock",
                                           !["out"].after = "peek.RLock"]
                     /\ LkGoto("out", "edit.Lock")
                     /\ UNCHANGED <<lkc, lko, lkenv>>)
    /\ UNCHANGED outsideLocks

\* f returns nil if m[IsRunning] (the loop calls Get again) and ErrStop if not
\* (the loop breaks to its second loop).
LkFnReturn ==
    /\ gpc["out"] = "fn.Return"
    /\ IF lko.map_copy[IsRunning]
         THEN LkGoto("out", "get.RLock") /\ UNCHANGED lko
         ELSE LkGoto("out", "peek.RLock") /\ lko' = [lko EXCEPT !.phase = "drain"]
    /\ UNCHANGED <<lkW, lkR, lkOrder, lkq, lkc, ctx, lkenv>>
    /\ UNCHANGED outsideLocks

\* The second loop is over: b.locker = nil, b.q = nil.
LkTeardown ==
    /\ gpc["out"] = "teardown"
    /\ lkenv' = [lkenv EXCEPT !.qnil = TRUE]
    /\ LkGoto("out", "done")
    /\ UNCHANGED <<lkW, lkR, lkOrder, lkq, lkc, lko, ctx>>
    /\ UNCHANGED outsideLocks

\* A step of goroutine g.
LkStep(g) ==
    \/ g = "listen" /\ (LkSend \/ LkRangeEnd \/ LkEnqueueLock)
    \/ g = "reset" /\ (LkResetCall \/ LkResetLock)
    \/ g = "out" /\ (\/ LkGetRLock \/ LkGetRUnlock \/ LkMustGetRLock
                     \/ LkMustGetRUnlock \/ LkDoFuncLock \/ LkHasFalseRLock
                     \/ LkHasFalseMustGet \/ LkHasFalseMustGot
                     \/ LkHasFalseRUnlock \/ LkDoFuncProceed \/ LkDoFuncWait
                     \/ LkWakeLock \/ LkPeekRLock \/ LkPeekRUnlock \/ LkOffer
                     \/ LkDequeueLock \/ LkFnReturn \/ LkTeardown)
    \/ LkEditLock(g) \/ LkEditUnlock(g)
    \/ LkSizeNotifyRLock(g) \/ LkSizeNotifyRUnlock(g)
    \/ LkCvLock(g) \/ LkCvUnlock(g)
    \/ LkSetLock(g) \/ LkSetUnlock(g)
    \/ LkNotifyRLock(g) \/ LkNotifyRUnlock(g)
    \/ LkPulseLock(g) \/ LkPulseUnlock(g)
    \/ LkQueueUnlock(g)

NextLocks ==
    \/ LkSend
    \/ LkClose
    \/ LkRangeEnd
    \/ LkEnqueueLock
    \/ \E g \in LkG : LkEditLock(g)
    \/ \E g \in LkG : LkEditUnlock(g)
    \/ \E g \in LkG : LkSizeNotifyRLock(g)
    \/ \E g \in LkG : LkSizeNotifyRUnlock(g)
    \/ \E g \in LkG : LkCvLock(g)
    \/ \E g \in LkG : LkCvUnlock(g)
    \/ \E g \in LkG : LkSetLock(g)
    \/ \E g \in LkG : LkSetUnlock(g)
    \/ \E g \in LkG : LkNotifyRLock(g)
    \/ \E g \in LkG : LkNotifyRUnlock(g)
    \/ \E g \in LkG : LkPulseLock(g)
    \/ \E g \in LkG : LkPulseUnlock(g)
    \/ \E g \in LkG : LkQueueUnlock(g)
    \/ LkResetCall
    \/ LkResetLock
    \/ LkGetRLock
    \/ LkGetRUnlock
    \/ LkMustGetRLock
    \/ LkMustGetRUnlock
    \/ LkDoFuncLock
    \/ LkHasFalseRLock
    \/ LkHasFalseMustGet
    \/ LkHasFalseMustGot
    \/ LkHasFalseRUnlock
    \/ LkDoFuncProceed
    \/ LkDoFuncWait
    \/ LkWakeLock
    \/ LkPeekRLock
    \/ LkPeekRUnlock
    \/ LkOffer
    \/ LkDequeueLock
    \/ LkFnReturn
    \/ LkTeardown

SpecLocks == InitLocks /\ [][NextLocks]_vars

\* ---- C31: lock order ----

\* R with the pairs two of its pairs chain to; three rounds close a relation
\* on the six locks.
LkCompose(R) ==
    R \cup {p \in Locks \X Locks :
              \E b \in Locks : <<p[1], b>> \in R /\ <<b, p[2]>> \in R}
LkClosure(R) == LkCompose(LkCompose(LkCompose(R)))

\* g has asked for a lock it cannot be given now.
LkBlocked(g) ==
    LET l == LkWants(g)
    IN  \/ gpc[g] \in LockPos
           /\ ~(lkW[l] = Nil \/ (lkW[l] = LkPending(g) /\ lkR[l] = {}))
        \/ gpc[g] \in RLockPos /\ lkW[l] # Nil

\* The goroutines that keep from g the lock it asks for.
LkBlockers(g) ==
    LET l == LkWants(g)
    IN  {h \in LkG : /\ \/ h \in lkR[l]
                        \/ lkW[l] = h
                        \/ lkW[l] = LkPending(h)
                     /\ ~(h = g /\ lkW[l] = LkPending(g))}

\* g can take a step, or everyone it waits for can or waits for someone who
\* can, n goroutines deep.
RECURSIVE LkLive(_, _)
LkLive(g, n) ==
    \/ ENABLED LkStep(g)
    \/ /\ n > 0
       /\ LkBlocked(g)
       /\ LkBlockers(g) # {}
       /\ \A h \in LkBlockers(g) : h # g /\ LkLive(h, n - 1)

\* A goroutine that parks (on the channel, in cond.Wait, or for good).
LkParked(g) == gpc[g] \in {"off", "idle", "recv", "wait", "done"}

\* No lock is, through any chain of "acquired while holding", acquired while
\* itself held.
LkAcyclic == \A l \in Locks : <<l, l>> \notin LkClosure(lkOrder)

\* A goroutine that asks for a lock gets it at once or waits for goroutines
\* that can all go on.
LkNoDeadlock == \A g \in LkG : LkWants(g) # Nil => LkLive(g, 2)

\* The scheduler runs every goroutine that can take a step.
SpecLocksFair == SpecLocks /\ \A g \in LkG : WF_vars(LkStep(g))

\* C31: the locks are never acquired in a cyclic order; a goroutine that
\* parks on a channel or in cond.Wait holds no lock; no set of goroutines
\* wait for each other's locks; and every goroutine that asks for a lock is
\* given it, so nobody waits for a lock forever.
C31_LockOrder ==
    /\ [](LkAcyclic /\ LkNoDeadlock)
    /\ [](\A g \in LkG : LkParked(g) => LkHeld(g) = {})
    /\ \A g \in LkG : (LkWants(g) # Nil) ~> (LkWants(g) = Nil)

\* The inbound loop, inside Enqueue with queue.mu held, waits for cond.L,
\* which the outbound loop holds inside DoFunc while it has read-locked l.mu;
\* both orders, queue.mu before cond.L and cond.L before l.mu, have been seen.
C31_Witness ==
    /\ gpc["listen"] = "pulse.Lock" /\ LkBlocked("listen")
    /\ lkW["queue.mu"] = "listen"
    /\ lkW["cond.L"] = "out" /\ "out" \in lkR["l.mu"]
    /\ <<"queue.mu", "l.mu">> \in lkOrder
    /\ <<"cond.L", "l.mu">> \in lkOrder

\* ---- two concurrent writers of one Subject ----

\* Everything but the Subject written by the two writers.
outsideWriters == <<bufVars, chanVars, subjects, queueVars, pc, localVars, histVars,
                    lockerVars, lockerHist, linkedVars, lockVars, ag, notes, ops>>

\* The values the writers call Set with (the Subject starts at 0).
SetValues == {1, 2}

\* The observers attached before the writers start: up to MaxObs observers
\* that fail or call s.Get(), in KindOrder.
PassiveLists ==
    {obs \in UNION {[1..n -> {"fail", "get"}] : n \in 1..MaxObs} :
        \A i \in 1..(Len(obs) - 1) : ~(obs[i] = "get" /\ obs[i + 1] = "fail")}

\* Whether writer w is inside its Set call.
InSet(w) == wr[w].pc \notin {"idle", "returned"}

\* The Subject exists with its observers attached; neither writer has called.
InitWriters ==
    /\ q = Nil /\ sendTo = Nil /\ receiveFrom = Nil /\ wg = 0 /\ locker = Nil
    /\ sendToClosed = FALSE /\ receiveFromClosed = FALSE
    /\ subjects = <<>>
    /\ nodes = <<>> /\ size = NoSubject /\ mu = Nil
    /\ pc = [p \in Procs |-> "idle"]
    /\ msg = 0 /\ peeked = 0 /\ mapCopy = <<>> /\ phase = "run"
    /\ next = 1 /\ sendCh = Nil /\ recvCh = Nil
    /\ crashed = FALSE /\ sendErr = Nil /\ recvErr = Nil /\ received = <<>>
    /\ starts = 0 /\ spawned = 0 /\ closes = 0 /\ resets = 0
    /\ acceptedAtClose = -1 /\ dropped = {} /\ lost = {} /\ afterReset = {}
    /\ LockerIdle
    /\ QueueIdle
    /\ LocksIdle
    /\ state = 0 /\ smu = Free
    /\ observers \in PassiveLists
    /\ ag = [a \in Clients |-> IdleAgent] /\ notes = <<>> /\ ops = 0
    /\ wr = [w \in Writers |-> NoSet]
    /\ told = {}
    /\ calls = [i \in 1..Len(observers) |-> 0]

\* Mutant: the closures pass the value their own Set call wrote.
notifiedOwn(copied, arg) == arg

\* The value NotifyAll's closures pass to Notify: the state it copied.
notified(copied, arg) == copied

\* A writer calls Set(value).
WSetCall(w, value) ==
    /\ wr[w].pc = "idle"
    /\ wr' = [x \in Writers |->
                IF x = w
                THEN [NoSet EXCEPT !.pc = "lock", !.arg = value,
                                   !.alone = \A y \in Writers \ {w} : ~InSet(y)]
                ELSE IF InSet(x) THEN [wr[x] EXCEPT !.alone = FALSE]
                ELSE wr[x]]
    /\ UNCHANGED <<outsideWriters, state, observers, smu, told, calls>>

\* Set: s.mu.Lock() and s.state = state.
WSetLock(w) ==
    /\ wr[w].pc = "lock"
    /\ smu = Free
    /\ smu' = w
    /\ state' = newState("set", wr[w].arg, "nil", state)
    /\ wr' = [wr EXCEPT ![w].pc = "unlock"]
    /\ UNCHANGED <<outsideWriters, observers, told, calls>>

\* Set: s.mu.Unlock(), then the call of NotifyAll.
WSetUnlock(w) ==
    /\ wr[w].pc = "unlock"
    /\ smu = w
    /\ smu' = Free
    /\ wr' = [wr EXCEPT ![w].pc = "snap"]
    /\ UNCHANGED <<outsideWriters, state, observers, told, calls>>

\* NotifyAll: state and observers are copied under s.mu.RLock(), and one
\* goroutine is started per observer of the copy.
WSnapshot(w) ==
    /\ wr[w].pc = "snap"
    /\ smu = Free
    /\ wr' = [wr EXCEPT ![w].pc = "notify", ![w].state = state,
                        ![w].obs = observers, ![w].left = DOMAIN observers,
                        ![w].at = state]
    /\ UNCHANGED <<outsideWriters, state, observers, smu, told, calls>>

\* The closure of the i-th observer: err := o.Notify(state); an observer that
\* calls s.Get() read-locks s.mu for it; an error is appended to errs.
WNotify(w, i) ==
    /\ wr[w].pc = "notify"
    /\ i \in wr[w].left
    /\ wr[w].obs[i] = "get" => smu = Free
    /\ told' = told \cup {[by |-> w, obs |-> i,
                           value |-> notified(wr[w].state, wr[w].arg),
                           at |-> wr[w].at]}
    /\ calls' = [calls EXCEPT ![i] = @ + 1]
    /\ wr' = [wr EXCEPT ![w].left = @ \ {i},
                        ![w].errs = IF wr[w].obs[i] = "fail" THEN @ \cup {i} ELSE @]
    /\ UNCHANGED <<outsideWriters, state, observers, smu>>

\* NotifyAll: wg.Wait() is over and errors.Join(errs...) is returned; Set
\* returns.
WJoin(w) ==
    /\ wr[w].pc = "notify"
    /\ wr[w].left = {}
    /\ wr' = [wr EXCEPT ![w].pc = "returned"]
    /\ UNCHANGED <<outsideWriters, state, observers, smu, told, calls>>

NextWriters ==
    \/ \E w \in Writers, value \in SetValues : WSetCall(w, value)
    \/ \E w \in Writers : WSetLock(w)
    \/ \E w \in Writers : WSetUnlock(w)
    \/ \E w \in Writers : WSnapshot(w)
    \/ \E w \in Writers, i \in 1..MaxObs : WNotify(w, i)
    \/ \E w \in Writers : WJoin(w)

SpecWriters == InitWriters /\ [][NextWriters]_vars

\* ---- C32: concurrent writers ----

\* Both Set calls have returned.
BothReturned == \A w \in Writers : wr[w].pc = "returned"

\* C32: when two goroutines each call Set on one Subject, every attached
\* observer is notified exactly twice once both calls have returned; every
\* notification carries the value the state had when its call took its copy;
\* each observer has been given the final state by one of the two; and a call
\* during which no other call was under way has given its own value to every
\* observer when it returns.
C32_ConcurrentWriters ==
    /\ \A i \in DOMAIN observers :
         /\ calls[i] <= 2
         /\ BothReturned => calls[i] = 2
         /\ BothReturned => \E r \in told : r.obs = i /\ r.value = state
    /\ \A r \in told : r.value = r.at
    /\ \A w \in Writers :
         wr[w].pc = "returned" /\ wr[w].alone =>
           \A i \in DOMAIN observers :
             \E r \in told : r.by = w /\ r.obs = i /\ r.value = wr[w].arg

\* Both calls have returned after running concurrently with different values,
\* and one of them passed the other writer's value to an observer.
C32_Witness ==
    /\ BothReturned
    /\ \A w \in Writers : ~wr[w].alone
    /\ \E w, x \in Writers : wr[w].arg # wr[x].arg
    /\ \E r \in told : r.value # wr[r.by].arg

\* Both calls have returned, the second having started after the first
\* returned.
C32_WitnessInTurn ==
    /\ BothReturned
    /\ \A w \in Writers : wr[w].alone
    /\ \E w, x \in Writers : wr[w].arg # wr[x].arg

====
